---- MODULE Spec2Model ----
(***************************************************************************)
(* The trade ledger, the risk gate and the webhook handlers of the LINE    *)
(* bot, as state machines.                                                 *)
(*                                                                         *)
(*   Spec         src/index.js: the webhook requests, which interleave at  *)
(*                their awaits, over the synchronous ledger (trades.json), *)
(*                the risk gate and the close command.                     *)
(*   SpecLedger   src/index.js: one call of a ledger function (the gate,   *)
(*                append, close) on any stored ledger.                     *)
(*   SpecLoaders  the synchronous ledger variants (src/index.js,           *)
(*                src/unnamed/part_005, src/unnamed/part_004): their       *)
(*                operations on a file that may be damaged between calls.  *)
(*   SpecAsync    src/logger.js (and src/unnamed/part_000): the webhook    *)
(*                requests over the asynchronous ledger, which interleave  *)
(*                between the read and the write of trades.json.           *)
(*   SpecExtract  src/index.js: extractDecisionSummary and                 *)
(*                applyRiskAndMaybeLog on the text of any answer.          *)
(*   SpecRecords  the fields of the records the three synchronous variants *)
(*                store, at the resolution of the clock.                   *)
(*   SpecCrash    src/index.js: the write of trades.json, interrupted by   *)
(*                the end of the process.                                  *)
(*   SpecRegime   src/logger.js: classifyRegime on any reply of the AI.    *)
(*   SpecAsk      src/logger.js, src/unnamed/part_001, part_002: the retry *)
(*                loops of askGoogleAI.                                    *)
(*   SpecBatch    src/index.js: one webhook request and its events.        *)
(*   SpecSession  src/index.js: the decisions and close commands of one    *)
(*                user, one after the other, from an empty ledger.         *)
(*   SpecDash     src/unnamed/part_005: the dashboard statistics.          *)
(*   SpecMemory   src/logger.js: the conversation memory of the users.     *)
(*   SpecRate     src/unnamed/part_002: the rate limiter.                  *)
(*   SpecLog      src/package.json: the interaction log and its counters.  *)
(***************************************************************************)
EXTENDS Integers, Sequences, FiniteSets, TLC

(***************************************************************************)
(* Bounds of the model.                                                    *)
(***************************************************************************)
\* records a stored ledger may hold in SpecLedger
MaxTrades == 4
\* records the webhook may log in Spec: no trade decision arrives that would add one more
MaxLogged == 2
\* records a ledger may grow to in SpecLoaders
MaxNotes == 2
\* message events one webhook request carries in SpecAsync
MaxEvents == 2

(***************************************************************************)
(* Program constants.                                                      *)
(***************************************************************************)
\* closedAt: null (a falsy timestamp)
NullTime == 0
\* const maxConsecutiveLoss = 3
maxConsecutiveLoss == 3
\* const maxDailyLossR = -3
maxDailyLossR == -3
\* formatRecentTrades(limit = 5)
limit == 5

VARIABLES
    file,   \* the content of TRADES_FILE
    now,    \* the clock: new Date(), to the calendar day
    pc,     \* where each webhook request is suspended, with the locals it holds
            \* across an await; in SpecLoaders, the variant that owns the file
    last    \* the input and the outcome of the handler the last step ran

vars == <<file, now, pc, last>>

\* the webhook requests in flight at the same time
Reqs == {"r1", "r2"}

\* the calendar days of the clock: the gate tells today from any other day
Days == {1, 2}

\* toISOString().slice(0, 10): the calendar day of a timestamp
DayOf(t) == t

(***************************************************************************)
(* The stored file.  JSON.stringify writes an array; what is read back is  *)
(* an array, some other JSON value, text that does not parse, or nothing.  *)
(***************************************************************************)
Absent == [kind |-> "absent", arr |-> <<>>]
Garbage == [kind |-> "garbage", arr |-> <<>>]
NonArray == [kind |-> "object", arr |-> <<>>]
\* JSON.stringify(trades, null, 2)
Stringify(trades) == [kind |-> "array", arr |-> trades]

\* index.js loadTrades
loadTrades(f) ==
    IF f.kind = "absent" THEN <<>>
    ELSE IF f.kind = "garbage" THEN <<>>
    ELSE IF f.kind = "array" THEN f.arr
    ELSE <<>>

\* index.js saveTrades: a failed write is logged and swallowed
saveTrades(f, trades, ok) == IF ok THEN Stringify(trades) ELSE f

(***************************************************************************)
(* AI answers: lines of text, the last of which may be the JSON summary.   *)
(***************************************************************************)
RiskVals == {1, -3}

Summary(isTrade, isNum, r) == [is_trade |-> isTrade, riskIsNum |-> isNum, risk_r |-> r]
NoSummary == Summary(FALSE, FALSE, 0)
TextLine == [kind |-> "text", sum |-> NoSummary]
BadJsonLine == [kind |-> "badjson", sum |-> NoSummary]
JsonLine(s) == [kind |-> "json", sum |-> s]

Answers ==
    {<<TextLine>>, <<TextLine, BadJsonLine>>,
     <<TextLine, JsonLine(Summary(FALSE, TRUE, 1))>>,
     <<TextLine, JsonLine(Summary(TRUE, FALSE, 0))>>}
    \cup {<<TextLine, JsonLine(Summary(TRUE, TRUE, r))>> : r \in RiskVals}

\* index.js extractDecisionSummary: <<>> is null, <<s>> the parsed last line
extractDecisionSummary(fullAnswer) ==
    IF Len(fullAnswer) = 0 THEN <<>>
    ELSE LET lastLine == fullAnswer[Len(fullAnswer)]
         IN  IF lastLine.kind = "text" THEN <<>>
             ELSE IF lastLine.kind = "badjson" THEN <<>>
             ELSE <<lastLine.sum>>

(***************************************************************************)
(* Records and statistics.                                                 *)
(***************************************************************************)
IsTerminal(t) == t.result = "win" \/ t.result = "loss"

\* mutant of NewTrade: the record is stamped as closed when it is created
NewTradeClosed(summary, t) ==
    [time |-> t,
     risk_r |-> IF summary.riskIsNum THEN summary.risk_r ELSE 1,
     result |-> "pending", closedAt |-> t]

\* index.js addTradeFromSummary: the record it builds
NewTrade(summary, t) ==
    [time |-> t,
     risk_r |-> IF summary.riskIsNum THEN summary.risk_r ELSE 1,
     result |-> "pending", closedAt |-> NullTime]

\* index.js addTradeFromSummary
addTradeFromSummary(f, summary, t, ok) ==
    saveTrades(f, Append(loadTrades(f), NewTrade(summary, t)), ok)

Abs(x) == IF x < 0 THEN -x ELSE x

\* win +R, loss -R of one finished record
SignedR(t) == IF t.result = "win" THEN Abs(t.risk_r) ELSE -Abs(t.risk_r)

RECURSIVE SumR(_)
SumR(s) == IF s = <<>> THEN 0 ELSE SignedR(Head(s)) + SumR(Tail(s))

RECURSIVE TailLosses(_)
TailLosses(s) ==
    IF s = <<>> THEN 0
    ELSE IF s[Len(s)].result = "loss" THEN 1 + TailLosses(SubSeq(s, 1, Len(s) - 1))
    ELSE 0

CountResult(s, r) == Cardinality({i \in 1..Len(s) : s[i].result = r})

\* Math.round((wins / total) * 100)
RoundPct(wins, total) == (200 * wins + total) \div (2 * total)

\* mutant of computeStats: the pending records are not filtered out
computeStatsAll(trades) ==
    LET total == Len(trades)
        wins == CountResult(trades, "win")
    IN  [total |-> total, wins |-> wins,
         losses |-> CountResult(trades, "loss"),
         winRate |-> IF total # 0 THEN RoundPct(wins, total) ELSE 0,
         totalR |-> SumR(trades),
         consecutiveLoss |-> TailLosses(trades)]

\* index.js computeStats
computeStats(trades) ==
    LET finished == SelectSeq(trades, IsTerminal)
        total == Len(finished)
        wins == CountResult(finished, "win")
    IN  [total |-> total, wins |-> wins,
         losses |-> CountResult(finished, "loss"),
         winRate |-> IF total # 0 THEN RoundPct(wins, total) ELSE 0,
         totalR |-> SumR(finished),
         consecutiveLoss |-> TailLosses(finished)]

\* message: ""
NoMessage == [rule |-> "none", n |-> 0]

\* the records the daily rule sums: finished, and closed (or created) today
ClosedOn(t, day) ==
    \/ t.closedAt # NullTime /\ DayOf(t.closedAt) = day
    \/ t.closedAt = NullTime /\ t.time # NullTime /\ DayOf(t.time) = day

FinishedToday(trades, day) ==
    SelectSeq(trades, LAMBDA t : IsTerminal(t) /\ ClosedOn(t, day))

\* mutant of evaluateRiskBeforeNewTrade: the streak must exceed the limit
evaluateRiskStrict(f, t) ==
    LET trades == loadTrades(f)
        stats == computeStats(trades)
        todayR == SumR(FinishedToday(trades, DayOf(t)))
    IN  IF stats.consecutiveLoss > maxConsecutiveLoss
        THEN [allow |-> FALSE,
              message |-> [rule |-> "consecutive", n |-> stats.consecutiveLoss]]
        ELSE IF todayR <= maxDailyLossR
        THEN [allow |-> FALSE, message |-> [rule |-> "daily", n |-> todayR]]
        ELSE [allow |-> TRUE, message |-> NoMessage]

\* index.js evaluateRiskBeforeNewTrade
evaluateRiskBeforeNewTrade(f, t) ==
    LET trades == loadTrades(f)
        stats == computeStats(trades)
        todayR == SumR(FinishedToday(trades, DayOf(t)))
    IN  IF stats.consecutiveLoss >= maxConsecutiveLoss
        THEN [allow |-> FALSE,
              message |-> [rule |-> "consecutive", n |-> stats.consecutiveLoss]]
        ELSE IF todayR <= maxDailyLossR
        THEN [allow |-> FALSE, message |-> [rule |-> "daily", n |-> todayR]]
        ELSE [allow |-> TRUE, message |-> NoMessage]

(***************************************************************************)
(* Replies.                                                                *)
(***************************************************************************)
Reply(kind, msg, body, stats) == [kind |-> kind, msg |-> msg, body |-> body, stats |-> stats]
NoReply == Reply("none", NoMessage, <<>>, <<>>)

\* mutant of applyRiskAndMaybeLog: a blocked decision returns the warning alone
applyRiskDropsAnswer(f, fullAnswer, t, ok) ==
    LET s == extractDecisionSummary(fullAnswer)
        risk == evaluateRiskBeforeNewTrade(f, t)
    IN  IF s = <<>> \/ ~s[1].is_trade
        THEN [file |-> f, text |-> Reply("plain", NoMessage, fullAnswer, <<>>)]
        ELSE IF ~risk.allow
        THEN [file |-> f, text |-> Reply("blocked", risk.message, <<>>, <<>>)]
        ELSE LET g == addTradeFromSummary(f, s[1], t, ok)
             IN  [file |-> g,
                  text |-> Reply("logged", NoMessage, fullAnswer,
                                 <<computeStats(loadTrades(g))>>)]

\* mutant of applyRiskAndMaybeLog: the record is written before the gate is asked
applyRiskLogsFirst(f, fullAnswer, t, ok) ==
    LET s == extractDecisionSummary(fullAnswer)
        risk == evaluateRiskBeforeNewTrade(f, t)
    IN  IF s = <<>> \/ ~s[1].is_trade
        THEN [file |-> f, text |-> Reply("plain", NoMessage, fullAnswer, <<>>)]
        ELSE LET g == addTradeFromSummary(f, s[1], t, ok)
             IN  IF ~risk.allow
                 THEN [file |-> g, text |-> Reply("blocked", risk.message, fullAnswer, <<>>)]
                 ELSE [file |-> g,
                       text |-> Reply("logged", NoMessage, fullAnswer,
                                      <<computeStats(loadTrades(g))>>)]

\* index.js applyRiskAndMaybeLog: the new file and the text it returns
applyRiskAndMaybeLog(f, fullAnswer, t, ok) ==
    LET s == extractDecisionSummary(fullAnswer)
        risk == evaluateRiskBeforeNewTrade(f, t)
    IN  IF s = <<>> \/ ~s[1].is_trade
        THEN [file |-> f, text |-> Reply("plain", NoMessage, fullAnswer, <<>>)]
        ELSE IF ~risk.allow
        THEN [file |-> f, text |-> Reply("blocked", risk.message, fullAnswer, <<>>)]
        ELSE LET g == addTradeFromSummary(f, s[1], t, ok)
             IN  [file |-> g,
                  text |-> Reply("logged", NoMessage, fullAnswer,
                                 <<computeStats(loadTrades(g))>>)]

(***************************************************************************)
(* The close command.                                                      *)
(***************************************************************************)
\* userText.toLowerCase(), on the words the text contains
Lower(w) == IF w = "WIN" THEN "win" ELSE IF w = "LOSS" THEN "loss" ELSE w
ToLowerCase(text) == {Lower(w) : w \in text}

\* the synonyms of win and of loss, transliterated: U+52DD, U+8D0F, "win"; U+6557, U+8667, U+8F38, "loss"
WinWords == {"sheng", "ying", "win"}
LossWords == {"bai", "kui", "shu", "loss"}

CmdTexts == {{}, {"sheng"}, {"bai"}, {"WIN"}, {"ying", "shu"}}

\* mutant of LastPending: the last record, whatever its result
LastRecord(trades) == Len(trades)

\* the last record whose result is not win / loss; 0 when there is none
LastPending(trades) ==
    LET open == {i \in 1..Len(trades) : trades[i].result = "" \/ trades[i].result = "pending"}
    IN  IF open = {} THEN 0 ELSE CHOOSE i \in open : \A j \in open : j <= i

\* index.js handleResultCommand: the new file and the text it replies
handleResultCommand(f, userText, t, ok) ==
    LET lower == ToLowerCase(userText)
        isWin == lower \cap WinWords # {}
        isLoss == lower \cap LossWords # {}
        trades == loadTrades(f)
        idx == LastPending(trades)
        closed == [trades EXCEPT ![idx].result = IF isWin THEN "win" ELSE "loss",
                                 ![idx].closedAt = t]
    IN  IF ~isWin /\ ~isLoss
        THEN [file |-> f, text |-> Reply("help", NoMessage, <<>>, <<>>)]
        ELSE IF Len(trades) = 0
        THEN [file |-> f, text |-> Reply("norecords", NoMessage, <<>>, <<>>)]
        ELSE IF idx = 0
        THEN [file |-> f, text |-> Reply("nopending", NoMessage, <<>>, <<>>)]
        ELSE [file |-> saveTrades(f, closed, ok),
              text |-> Reply(IF isWin THEN "updated win" ELSE "updated loss",
                             NoMessage, <<>>, <<computeStats(closed)>>)]

(***************************************************************************)
(* The webhook of index.js.  A request runs one event at a time and is     *)
(* suspended only at an await: the AI call, the image download, the reply. *)
(***************************************************************************)
\* what the handler run by the last step was given and what it replied;
\* NoCall after a step that ran none
Call(ans, cmd, text) == [ans |-> ans, cmd |-> cmd, text |-> text]
NoCall == Call(<<>>, {}, NoReply)

Init ==
    /\ file \in {Absent, Garbage, NonArray, Stringify(<<>>)}
    /\ now = 1
    /\ pc = [p \in Reqs |-> "idle"]
    /\ last = NoCall

\* the clock reaches the next day
Tick ==
    /\ now + 1 \in Days
    /\ now' = now + 1
    /\ last' = NoCall
    /\ UNCHANGED <<file, pc>>

\* a text event that is no command: await askGoogleAI
TextEvent(p) ==
    /\ pc[p] = "idle"
    /\ pc' = [pc EXCEPT ![p] = "askAI"]
    /\ last' = NoCall
    /\ UNCHANGED <<file, now>>

\* an image event: await axios.get of the content
ImageEvent(p) ==
    /\ pc[p] = "idle"
    /\ pc' = [pc EXCEPT ![p] = "download"]
    /\ last' = NoCall
    /\ UNCHANGED <<file, now>>

\* the download fails: reply and continue with the next event
DownloadFails(p) ==
    /\ pc[p] = "download"
    /\ pc' = [pc EXCEPT ![p] = "reply"]
    /\ last' = Call(<<>>, {}, Reply("download failed", NoMessage, <<>>, <<>>))
    /\ UNCHANGED <<file, now>>

\* the download succeeds: await askGeminiVision
DownloadDone(p) ==
    /\ pc[p] = "download"
    /\ pc' = [pc EXCEPT ![p] = "askAI"]
    /\ last' = NoCall
    /\ UNCHANGED <<file, now>>

\* the AI call returns: applyRiskAndMaybeLog runs to its end, then await replyToLine
AnswerArrives(p) ==
    /\ pc[p] = "askAI"
    /\ \E a \in Answers, ok \in BOOLEAN :
         LET r == applyRiskAndMaybeLog(file, a, now, ok)
         IN  /\ Len(loadTrades(r.file)) <= MaxLogged
             /\ file' = r.file
             /\ last' = Call(a, {}, r.text)
    /\ pc' = [pc EXCEPT ![p] = "reply"]
    /\ UNCHANGED now

\* a text event that starts with the command word: handleResultCommand up to its reply
ResultCommand(p) ==
    /\ pc[p] = "idle"
    /\ \E c \in CmdTexts, ok \in BOOLEAN :
         LET r == handleResultCommand(file, c, now, ok)
         IN  /\ file' = r.file
             /\ last' = Call(<<>>, c, r.text)
    /\ pc' = [pc EXCEPT ![p] = "reply"]
    /\ UNCHANGED now

\* an event that is neither text nor image: reply that it is not supported
OtherEvent(p) ==
    /\ pc[p] = "idle"
    /\ pc' = [pc EXCEPT ![p] = "reply"]
    /\ last' = Call(<<>>, {}, Reply("unsupported", NoMessage, <<>>, <<>>))
    /\ UNCHANGED <<file, now>>

\* replyToLine returns (sent, or failed and logged)
ReplyDone(p) ==
    /\ pc[p] = "reply"
    /\ pc' = [pc EXCEPT ![p] = "idle"]
    /\ last' = NoCall
    /\ UNCHANGED <<file, now>>

Next ==
    \/ Tick
    \/ \E p \in Reqs : TextEvent(p)
    \/ \E p \in Reqs : ImageEvent(p)
    \/ \E p \in Reqs : DownloadFails(p)
    \/ \E p \in Reqs : DownloadDone(p)
    \/ \E p \in Reqs : AnswerArrives(p)
    \/ \E p \in Reqs : ResultCommand(p)
    \/ \E p \in Reqs : OtherEvent(p)
    \/ \E p \in Reqs : ReplyDone(p)

Spec == Init /\ [][Next]_vars

(***************************************************************************)
(* SpecLedger: the ledger functions of index.js on any stored ledger.      *)
(***************************************************************************)
\* the records a stored ledger may hold: open ones, and finished ones with
\* or without the day they were closed
Records ==
    [time : {1}, risk_r : {1}, result : {"pending"}, closedAt : {NullTime}]
    \cup [time : {1}, risk_r : RiskVals, result : {"win", "loss"}, closedAt : Days]
    \cup [time : {1}, risk_r : {1}, result : {"loss"}, closedAt : {NullTime}]

RECURSIVE SeqsUpTo(_, _)
SeqsUpTo(S, n) ==
    IF n = 0 THEN {<<>>}
    ELSE LET shorter == SeqsUpTo(S, n - 1)
         IN  shorter \cup {Append(s, x) : s \in {q \in shorter : Len(q) = n - 1}, x \in S}

InitLedger ==
    /\ file \in {Stringify(s) : s \in SeqsUpTo(Records, MaxTrades)}
    /\ now \in Days
    /\ pc = <<>>
    /\ last = NoCall

\* evaluateRiskBeforeNewTrade()
LedgerGate ==
    /\ last = NoCall
    /\ LET risk == evaluateRiskBeforeNewTrade(file, now)
       IN  last' = Call(<<>>, {}, Reply(IF risk.allow THEN "gate allow" ELSE "gate block",
                                       risk.message, <<>>, <<>>))
    /\ UNCHANGED <<file, now, pc>>

\* addTradeFromSummary(summary)
LedgerAppend ==
    /\ last = NoCall
    /\ \E a \in Answers, ok \in BOOLEAN :
         /\ extractDecisionSummary(a) # <<>>
         /\ file' = addTradeFromSummary(file, extractDecisionSummary(a)[1], now, ok)
         /\ last' = Call(a, {}, Reply("appended", NoMessage, <<>>, <<>>))
    /\ UNCHANGED <<now, pc>>

\* handleResultCommand(replyToken, userText)
LedgerClose ==
    /\ last = NoCall
    /\ \E c \in CmdTexts, ok \in BOOLEAN :
         LET r == handleResultCommand(file, c, now, ok)
         IN  /\ file' = r.file
             /\ last' = Call(<<>>, c, r.text)
    /\ UNCHANGED <<now, pc>>

NextLedger == LedgerGate \/ LedgerAppend \/ LedgerClose

SpecLedger == InitLedger /\ [][NextLedger]_vars

(***************************************************************************)
(* SpecLoaders: the synchronous ledger variants on a file that may have    *)
(* been damaged.  Each variant is its own program with its own trades.json.*)
(***************************************************************************)
\* an empty file, and the JSON text null
EmptyText == [kind |-> "empty", arr |-> <<>>]
JsonNull == [kind |-> "null", arr |-> <<>>]

\* what the file holds when it does not hold an array
Damaged == {Absent, EmptyText, Garbage, NonArray, JsonNull}

Variants == {"index.js", "part_005", "part_004"}

\* part_004: the texts of the record command
Notes == {"long", "short"}

\* what an operation of a variant found and did: the kind of content it read,
\* whether an exception left it, and the collection it worked on
Loaded(op, before, threw, value) ==
    [op |-> op, before |-> before, threw |-> threw, value |-> value]
NoLoad == Loaded("none", "none", FALSE, <<>>)

\* part_005 loadTrades: the value returned and the file left behind; ok1 and
\* ok2 tell whether the writeFileSync of the try block and of the catch block succeed
loadTrades5(f, ok1, ok2) ==
    IF f.kind = "array" THEN [file |-> f, threw |-> FALSE, value |-> f.arr]
    ELSE IF f.kind = "empty" THEN [file |-> f, threw |-> FALSE, value |-> <<>>]
    ELSE IF f.kind \in {"object", "null"} /\ ok1
    THEN [file |-> Stringify(<<>>), threw |-> FALSE, value |-> <<>>]
    ELSE IF ok2
    THEN [file |-> Stringify(<<>>), threw |-> FALSE, value |-> <<>>]
    ELSE [file |-> f, threw |-> TRUE, value |-> <<>>]

\* part_005 saveTrades
saveTrades5(f, trades, ok) == IF ok THEN Stringify(trades) ELSE f

\* part_005 webhook, image branch: the record built from the analysis
ImageTrade(t) == [id |-> t, source |-> "image", result |-> "none"]

\* part_005 webhook, image branch: loadTrades, push, saveTrades
appendImageTrade(f, t, ok1, ok2, oks) ==
    LET r == loadTrades5(f, ok1, ok2)
    IN  IF r.threw THEN r
        ELSE [file |-> saveTrades5(r.file, Append(r.value, ImageTrade(t)), oks),
              threw |-> FALSE, value |-> r.value]

\* part_004 ensureTradesFile
ensureTradesFile(f, ok) == IF f.kind = "absent" /\ ok THEN Stringify(<<>>) ELSE f

\* part_004 loadTrades: JSON.parse(raw || "[]") is returned whatever it is
loadTrades4(f, ok) ==
    LET g == ensureTradesFile(f, ok)
    IN  IF g.kind \in {"array", "object", "null"} THEN [file |-> g, value |-> g]
        ELSE [file |-> g, value |-> Stringify(<<>>)]

\* part_004 saveTrades
saveTrades4(f, trades, ok) == IF ok THEN Stringify(trades) ELSE f

\* part_004 appendTrade: trades.push is a TypeError unless trades is an array
appendTrade(f, note, oke, oks) ==
    LET r == loadTrades4(f, oke)
        trades == r.value.arr
    IN  IF r.value.kind # "array"
        THEN [file |-> r.file, threw |-> TRUE, value |-> <<>>]
        ELSE [file |-> saveTrades4(r.file,
                                   Append(trades, [id |-> Len(trades) + 1, note |-> note]),
                                   oks),
              threw |-> FALSE, value |-> trades]

\* trades.slice(-n)
SliceLast(trades, n) ==
    IF Len(trades) <= n THEN trades ELSE SubSeq(trades, Len(trades) - n + 1, Len(trades))

\* part_004 formatRecentTrades: null.length is a TypeError, ({}).length is undefined
formatRecentTrades(f, oke) ==
    LET r == loadTrades4(f, oke)
    IN  IF r.value.kind = "null"
        THEN [file |-> r.file, threw |-> TRUE, value |-> <<>>]
        ELSE IF r.value.kind = "object"
        THEN [file |-> r.file, threw |-> FALSE, value |-> <<>>]
        ELSE [file |-> r.file, threw |-> FALSE, value |-> SliceLast(r.value.arr, limit)]

InitLoaders ==
    /\ file \in {NonArray, JsonNull, Stringify(<<>>)}
    /\ now = 1
    /\ pc \in {[variant |-> v] : v \in Variants}
    /\ last = NoLoad

\* the file is replaced from outside the program: an interrupted write, an
\* edit by hand, a deploy
Damage ==
    /\ file' \in Damaged \ {file}
    /\ last' = NoLoad
    /\ UNCHANGED <<now, pc>>

\* index.js: a read of the ledger (the gate, the statistics)
IndexRead ==
    /\ pc.variant = "index.js"
    /\ last' = Loaded("read", file.kind, FALSE, loadTrades(file))
    /\ UNCHANGED <<file, now, pc>>

\* index.js: addTradeFromSummary
IndexAppend ==
    /\ pc.variant = "index.js"
    /\ Len(loadTrades(file)) < MaxNotes
    /\ \E ok \in BOOLEAN :
         file' = addTradeFromSummary(file, Summary(TRUE, TRUE, 1), now, ok)
    /\ last' = Loaded("append", file.kind, FALSE, loadTrades(file))
    /\ UNCHANGED <<now, pc>>

\* index.js: handleResultCommand
IndexClose ==
    /\ pc.variant = "index.js"
    /\ \E ok \in BOOLEAN : file' = handleResultCommand(file, {"sheng"}, now, ok).file
    /\ last' = Loaded("close", file.kind, FALSE, loadTrades(file))
    /\ UNCHANGED <<now, pc>>

\* part_005: GET /api/trades, GET /api/stats
Part5Read ==
    /\ pc.variant = "part_005"
    /\ \E ok1 \in BOOLEAN, ok2 \in BOOLEAN :
         LET r == loadTrades5(file, ok1, ok2)
         IN  /\ file' = r.file
             /\ last' = Loaded("read", file.kind, r.threw, r.value)
    /\ UNCHANGED <<now, pc>>

\* part_005: the image branch of the webhook logs the analysis
Part5Append ==
    /\ pc.variant = "part_005"
    /\ Len(file.arr) < MaxNotes
    /\ \E ok1 \in BOOLEAN, ok2 \in BOOLEAN, oks \in BOOLEAN :
         LET r == appendImageTrade(file, now, ok1, ok2, oks)
         IN  /\ file' = r.file
             /\ last' = Loaded("append", file.kind, r.threw, r.value)
    /\ UNCHANGED <<now, pc>>

\* part_004: the record command of the webhook
Part4Append ==
    /\ pc.variant = "part_004"
    /\ Len(file.arr) < MaxNotes
    /\ \E note \in Notes, oke \in BOOLEAN, oks \in BOOLEAN :
         LET r == appendTrade(file, note, oke, oks)
         IN  /\ file' = r.file
             /\ last' = Loaded("append", file.kind, r.threw, r.value)
    /\ UNCHANGED <<now, pc>>

\* part_004: the list command of the webhook
Part4Recent ==
    /\ pc.variant = "part_004"
    /\ \E oke \in BOOLEAN :
         LET r == formatRecentTrades(file, oke)
         IN  /\ file' = r.file
             /\ last' = Loaded("recent", file.kind, r.threw, r.value)
    /\ UNCHANGED <<now, pc>>

NextLoaders ==
    \/ Damage
    \/ IndexRead
    \/ IndexAppend
    \/ IndexClose
    \/ Part5Read
    \/ Part5Append
    \/ Part4Append
    \/ Part4Recent

SpecLoaders == InitLoaders /\ [][NextLoaders]_vars

(***************************************************************************)
(* SpecAsync: the webhook of logger.js over the asynchronous ledger.  The  *)
(* text branch awaits the AI answer, the regime, the reply, then           *)
(* loadTrades, and after the push saveTrades; part_000 recordTextTrade has *)
(* the same load, push, save.  fs.writeFile opens the file with truncation *)
(* and writes the text in a later step.                                    *)
(***************************************************************************)
\* the locals of a request: where it is suspended, the array it loaded and
\* pushed to, the events it has logged, and those whose write completed
Local(at, trades, n, wrote) == [at |-> at, trades |-> trades, n |-> n, wrote |-> wrote]

\* the record pushed for event k of request p; its id (the clock and a random
\* suffix) is taken to be unique
TextTrade(p, k) == [id |-> <<p, k>>, kind |-> "text"]

\* logger.js loadTrades: the array read, or [] on any failure
loadTradesAsync(f) == IF f.kind = "array" THEN f.arr ELSE <<>>

InitAsync ==
    /\ file \in {Absent, Garbage, NonArray, Stringify(<<>>)}
    /\ now = 1
    /\ pc = [p \in Reqs |-> Local("idle", <<>>, 0, {})]
    /\ last = NoCall

\* the next text event of the request: await askGoogleAI
AsyncTextEvent(p) ==
    /\ pc[p].at = "idle"
    /\ pc[p].n < MaxEvents
    /\ pc' = [pc EXCEPT ![p].at = "askAI"]
    /\ UNCHANGED <<file, now, last>>

\* the answer arrives: await classifyRegime
AsyncAnswer(p) ==
    /\ pc[p].at = "askAI"
    /\ pc' = [pc EXCEPT ![p].at = "classify"]
    /\ UNCHANGED <<file, now, last>>

\* the regime arrives: await replyToLine
AsyncRegime(p) ==
    /\ pc[p].at = "classify"
    /\ pc' = [pc EXCEPT ![p].at = "reply"]
    /\ UNCHANGED <<file, now, last>>

\* replyToLine returns: await loadTrades
AsyncReplied(p) ==
    /\ pc[p].at = "reply"
    /\ pc' = [pc EXCEPT ![p].at = "load"]
    /\ UNCHANGED <<file, now, last>>

\* loadTrades returns what the file holds now; trades.push; await saveTrades
AsyncLoaded(p) ==
    /\ pc[p].at = "load"
    /\ pc' = [pc EXCEPT ![p] =
                Local("open", Append(loadTradesAsync(file), TextTrade(p, pc[p].n + 1)),
                      pc[p].n + 1, pc[p].wrote)]
    /\ UNCHANGED <<file, now, last>>

\* saveTrades: fs.writeFile opens the file, which truncates it; a failure is
\* logged and swallowed
AsyncSaveOpen(p) ==
    /\ pc[p].at = "open"
    /\ \E ok \in BOOLEAN :
         IF ok
         THEN /\ file' = EmptyText
              /\ pc' = [pc EXCEPT ![p].at = "write"]
         ELSE /\ file' = file
              /\ pc' = [pc EXCEPT ![p] = Local("idle", <<>>, pc[p].n, pc[p].wrote)]
    /\ UNCHANGED <<now, last>>

\* saveTrades: the text of the array is written
AsyncSaveWritten(p) ==
    /\ pc[p].at = "write"
    /\ file' = Stringify(pc[p].trades)
    /\ pc' = [pc EXCEPT ![p] = Local("idle", <<>>, pc[p].n, pc[p].wrote \cup {pc[p].n})]
    /\ UNCHANGED <<now, last>>

NextAsync ==
    \/ \E p \in Reqs : AsyncTextEvent(p)
    \/ \E p \in Reqs : AsyncAnswer(p)
    \/ \E p \in Reqs : AsyncRegime(p)
    \/ \E p \in Reqs : AsyncReplied(p)
    \/ \E p \in Reqs : AsyncLoaded(p)
    \/ \E p \in Reqs : AsyncSaveOpen(p)
    \/ \E p \in Reqs : AsyncSaveWritten(p)

SpecAsync == InitAsync /\ [][NextAsync]_vars

(***************************************************************************)
(* SpecExtract: extractDecisionSummary of index.js on the characters of    *)
(* an AI text, and applyRiskAndMaybeLog on the text it was given.  A text  *)
(* is its lines; a line is its characters, where "t" and "f" stand for the *)
(* members "is_trade":true and "is_trade":false, "x" for any other text    *)
(* and " " for white space.                                                *)
(***************************************************************************)
\* lines an AI text may have in SpecExtract
MaxLines == 2

\* the lines of the AI texts: empty, blank, prose, a JSON object alone or
\* with white space around it, an object cut short, prose around an object,
\* two objects, an object without comma between its members
AnswerLines ==
    {<<>>, <<" ">>, <<"x">>,
     <<"{", "}">>, <<"{", "t", "}">>, <<"{", "f", "}">>,
     <<" ", "{", " ", "t", "}", " ">>,
     <<"{", "t">>, <<"x", "{", "t", "}">>, <<"{", "t", "}", "x">>,
     <<"{", "t", "}", "{", "f", "}">>, <<"{", "t", "f", "}">>}

\* String.prototype.trim on one line
RECURSIVE TrimStart(_)
TrimStart(l) == IF l # <<>> /\ Head(l) = " " THEN TrimStart(Tail(l)) ELSE l
RECURSIVE TrimEnd(_)
TrimEnd(l) ==
    IF l # <<>> /\ l[Len(l)] = " " THEN TrimEnd(SubSeq(l, 1, Len(l) - 1)) ELSE l
TrimLine(l) == TrimEnd(TrimStart(l))

\* fullAnswer.trim().split("\n"): blank lines at either end are dropped, and
\* the empty string splits into one empty line
RECURSIVE DropBlankStart(_)
DropBlankStart(text) ==
    IF text # <<>> /\ TrimLine(Head(text)) = <<>> THEN DropBlankStart(Tail(text)) ELSE text
RECURSIVE DropBlankEnd(_)
DropBlankEnd(text) ==
    IF text # <<>> /\ TrimLine(text[Len(text)]) = <<>>
    THEN DropBlankEnd(SubSeq(text, 1, Len(text) - 1))
    ELSE text
TrimSplit(text) ==
    LET kept == DropBlankEnd(DropBlankStart(text))
    IN  IF kept = <<>> THEN << <<>> >>
        ELSE [i \in 1..Len(kept) |->
                IF i = 1 /\ i = Len(kept) THEN TrimLine(kept[i])
                ELSE IF i = 1 THEN TrimStart(kept[i])
                ELSE IF i = Len(kept) THEN TrimEnd(kept[i])
                ELSE kept[i]]

\* the characters of a line that are not white space
NoSpace(l) == SelectSeq(l, LAMBDA c : c # " ")

\* JSON.parse of a line: <<>> when it throws, else the object as a summary
JsonParse(l) ==
    IF NoSpace(l) = <<"{", "t", "}">> THEN <<Summary(TRUE, FALSE, 0)>>
    ELSE IF NoSpace(l) = <<"{", "f", "}">> THEN <<Summary(FALSE, FALSE, 0)>>
    ELSE IF NoSpace(l) = <<"{", "}">> THEN <<NoSummary>>
    ELSE <<>>

\* what a call of extractDecisionSummary gives: whether an exception left
\* it, and the summary (<<>> is null)
Extracted(threw, sum) == [threw |-> threw, sum |-> sum]

\* extractDecisionSummary without its try / catch
extractUncaught(text) ==
    LET lines == TrimSplit(text)
        lastLine == TrimLine(lines[Len(lines)])
    IN  IF lastLine = <<>> \/ Head(lastLine) # "{" \/ lastLine[Len(lastLine)] # "}"
        THEN Extracted(FALSE, <<>>)
        ELSE IF JsonParse(lastLine) = <<>> THEN Extracted(TRUE, <<>>)
        ELSE Extracted(FALSE, JsonParse(lastLine))

\* index.js extractDecisionSummary, on the characters of the text
extractFromText(text) ==
    LET lines == TrimSplit(text)
        lastLine == TrimLine(lines[Len(lines)])
    IN  IF lastLine = <<>> \/ Head(lastLine) # "{" \/ lastLine[Len(lastLine)] # "}"
        THEN Extracted(FALSE, <<>>)
        ELSE Extracted(FALSE, JsonParse(lastLine))

\* index.js applyRiskAndMaybeLog, on the characters of the text
applyRiskAndMaybeLogText(f, text, t, ok) ==
    LET e == extractFromText(text)
        risk == evaluateRiskBeforeNewTrade(f, t)
    IN  IF e.threw
        THEN [file |-> f, threw |-> TRUE, text |-> NoReply]
        ELSE IF e.sum = <<>> \/ ~e.sum[1].is_trade
        THEN [file |-> f, threw |-> FALSE, text |-> Reply("plain", NoMessage, text, <<>>)]
        ELSE IF ~risk.allow
        THEN [file |-> f, threw |-> FALSE,
              text |-> Reply("blocked", risk.message, text, <<>>)]
        ELSE LET g == addTradeFromSummary(f, e.sum[1], t, ok)
             IN  [file |-> g, threw |-> FALSE,
                  text |-> Reply("logged", NoMessage, text,
                                 <<computeStats(loadTrades(g))>>)]

\* the AI texts: one line at least, as split("\n") gives
Texts == SeqsUpTo(AnswerLines, MaxLines) \ {<<>>}

\* what the last step called with the text, what extractDecisionSummary gave
\* for it, and what came back
Ran(op, out, threw, reply) == [op |-> op, out |-> out, threw |-> threw, reply |-> reply]
NoRun == Ran("none", Extracted(FALSE, <<>>), FALSE, NoReply)

InitExtract ==
    /\ file \in {Garbage, Stringify(<<>>), Stringify(<<NewTrade(NoSummary, 1)>>)}
    /\ now = 1
    /\ pc \in {[text |-> t] : t \in Texts}
    /\ last = NoRun

\* extractDecisionSummary(fullAnswer)
ExtractCall ==
    /\ LET e == extractFromText(pc.text)
       IN  last' = Ran("extract", e, e.threw, NoReply)
    /\ UNCHANGED <<file, now, pc>>

\* applyRiskAndMaybeLog(fullAnswer)
ApplyCall ==
    /\ Len(loadTrades(file)) <= MaxLogged
    /\ \E ok \in BOOLEAN :
         LET r == applyRiskAndMaybeLogText(file, pc.text, now, ok)
         IN  /\ file' = r.file
             /\ last' = Ran("apply", extractFromText(pc.text), r.threw, r.text)
    /\ UNCHANGED <<now, pc>>

NextExtract == ExtractCall \/ ApplyCall

SpecExtract == InitExtract /\ [][NextExtract]_vars

(***************************************************************************)
(* SpecRecords: the id, the direction and the market state of the records  *)
(* the variants append (index.js addTradeFromSummary, the image branch of  *)
(* part_005, part_004 appendTrade), with the clock in milliseconds.        *)
(***************************************************************************)
\* records a ledger may grow to in SpecRecords
MaxRecs == 2
\* milliseconds the clock may reach in SpecRecords
MaxMs == 2

\* a field the variant's record does not have
NoField == "n/a"

\* what the AI may give as direction and as market state; "" stands for a
\* missing, null or empty value
Directions == {"long", "none", "buy", ""}
MarketStates == {"range", "unknown", "sideways", ""}

\* x || d
OrElse(x, d) == IF x = "" THEN d ELSE x

\* Date.now().toString()
NumToString(n) == [str |-> n]

\* index.js addTradeFromSummary: id and direction of the record it builds
IndexRecord(ms, direction) ==
    [id |-> ms, direction |-> OrElse(direction, ""), marketState |-> NoField]

\* part_005 webhook, image branch: id, market state and direction of the record
Part5Record(ms, direction, market) ==
    [id |-> NumToString(ms), direction |-> OrElse(direction, "none"),
     marketState |-> OrElse(market, "unknown")]

\* part_004 appendTrade: the id of the record it pushes
Part4Record(trades) ==
    [id |-> Len(trades) + 1, direction |-> NoField, marketState |-> NoField]

InitRecords ==
    /\ file = Stringify(<<>>)
    /\ now = 1
    /\ pc \in {[variant |-> v] : v \in Variants}
    /\ last = NoLoad

\* the clock reaches the next millisecond
MsTick ==
    /\ now < MaxMs
    /\ now' = now + 1
    /\ UNCHANGED <<file, pc, last>>

\* the file is damaged from outside: the next load gives []
RecordsDamage ==
    /\ file # Garbage
    /\ file' = Garbage
    /\ UNCHANGED <<now, pc, last>>

\* index.js: a trade decision the gate allows is logged
RecordsIndexAppend ==
    /\ pc.variant = "index.js"
    /\ Len(loadTrades(file)) < MaxRecs
    /\ \E d \in Directions, ok \in BOOLEAN :
         file' = saveTrades(file, Append(loadTrades(file), IndexRecord(now, d)), ok)
    /\ UNCHANGED <<now, pc, last>>

\* part_005: the analysis of an image is logged
RecordsPart5Append ==
    /\ pc.variant = "part_005"
    /\ Len(file.arr) < MaxRecs
    /\ \E d \in Directions, m \in MarketStates, ok1 \in BOOLEAN, ok2 \in BOOLEAN, oks \in BOOLEAN :
         LET r == loadTrades5(file, ok1, ok2)
         IN  file' = IF r.threw THEN r.file
                     ELSE saveTrades5(r.file, Append(r.value, Part5Record(now, d, m)), oks)
    /\ UNCHANGED <<now, pc, last>>

\* part_004: the record command
RecordsPart4Append ==
    /\ pc.variant = "part_004"
    /\ Len(file.arr) < MaxRecs
    /\ \E oke \in BOOLEAN, oks \in BOOLEAN :
         LET r == loadTrades4(file, oke)
         IN  file' = saveTrades4(r.file, Append(r.value.arr, Part4Record(r.value.arr)), oks)
    /\ UNCHANGED <<now, pc, last>>

NextRecords ==
    \/ MsTick
    \/ RecordsDamage
    \/ RecordsIndexAppend
    \/ RecordsPart5Append
    \/ RecordsPart4Append

SpecRecords == InitRecords /\ [][NextRecords]_vars

(***************************************************************************)
(* SpecCrash: saveTrades of index.js (and of part_005) when the process    *)
(* may stop during fs.writeFileSync(TRADES_FILE, text), which opens the    *)
(* file with truncation and then writes the text into it.                  *)
(***************************************************************************)
\* records the ledger may grow to in SpecCrash
MaxSaved == 3

\* the write in progress: where it is, the collection loaded before it and
\* the collection being written
Writing(at, old, new) == [at |-> at, old |-> old, new |-> new]
NotWriting == Writing("idle", <<>>, <<>>)

InitCrash ==
    /\ file \in {Absent, Stringify(<<>>)}
    /\ now = 1
    /\ pc = NotWriting
    /\ last = NoCall

\* addTradeFromSummary reaches saveTrades: writeFileSync opens the file
CrashAppendOpens ==
    /\ pc.at = "idle"
    /\ Len(loadTrades(file)) < MaxSaved
    /\ pc' = Writing("opened", loadTrades(file),
                     Append(loadTrades(file), NewTrade(NoSummary, now)))
    /\ file' = EmptyText
    /\ UNCHANGED <<now, last>>

\* handleResultCommand reaches saveTrades: writeFileSync opens the file
CrashCloseOpens ==
    /\ pc.at = "idle"
    /\ LastPending(loadTrades(file)) # 0
    /\ \E r \in {"win", "loss"} :
         pc' = Writing("opened", loadTrades(file),
                       [loadTrades(file) EXCEPT ![LastPending(loadTrades(file))].result = r,
                                                ![LastPending(loadTrades(file))].closedAt = now])
    /\ file' = EmptyText
    /\ UNCHANGED <<now, last>>

\* a part of the text has been written
CrashWritePart ==
    /\ pc.at = "opened"
    /\ pc' = [pc EXCEPT !.at = "partial"]
    /\ file' = Garbage
    /\ UNCHANGED <<now, last>>

\* the whole text has been written: saveTrades returns
CrashWriteDone ==
    /\ pc.at \in {"opened", "partial"}
    /\ pc' = NotWriting
    /\ file' = Stringify(pc.new)
    /\ UNCHANGED <<now, last>>

\* the process stops during the write; the file stays as it is
Crash ==
    /\ pc.at \in {"opened", "partial"}
    /\ pc' = [pc EXCEPT !.at = "crashed"]
    /\ UNCHANGED <<file, now, last>>

\* the process is started again
Restart ==
    /\ pc.at = "crashed"
    /\ pc' = NotWriting
    /\ UNCHANGED <<file, now, last>>

NextCrash ==
    \/ CrashAppendOpens
    \/ CrashCloseOpens
    \/ CrashWritePart
    \/ CrashWriteDone
    \/ Crash
    \/ Restart

SpecCrash == InitCrash /\ [][NextCrash]_vars

(***************************************************************************)
(* SpecRegime: classifyRegime of logger.js (the same text in part_003) on  *)
(* the reply of the AI caller, and the record the webhook writes from its  *)
(* result.  A reply is a sequence of tokens: the braces, "x" for any other *)
(* text, and the members "regime": ... and "strategyAllowed": ... of an    *)
(* object, with the commas between them left out.                          *)
(***************************************************************************)
\* tokens a reply may have in SpecRegime
MaxRaw == 4

\* "regime":"range", "regime":"trend", "regime":"sideways"
RegimeMembers == {"r=range", "r=trend", "r=other"}
\* "strategyAllowed":true, "strategyAllowed":false, "strategyAllowed":"yes"
AllowMembers == {"a=true", "a=false", "a=other"}
ReplyTokens == {"{", "}", "x"} \cup RegimeMembers \cup AllowMembers

\* the replies askGoogleAI may return: its fixed failure messages are "x"
Raws == SeqsUpTo(ReplyTokens, MaxRaw)

\* raw.indexOf(c), raw.lastIndexOf(c): 0 stands for -1
IndexOf(raw, c) ==
    IF \E i \in 1..Len(raw) : raw[i] = c
    THEN CHOOSE i \in 1..Len(raw) : raw[i] = c /\ \A j \in 1..(i - 1) : raw[j] # c
    ELSE 0
LastIndexOf(raw, c) ==
    IF \E i \in 1..Len(raw) : raw[i] = c
    THEN CHOOSE i \in 1..Len(raw) : raw[i] = c /\ \A j \in (i + 1)..Len(raw) : raw[j] # c
    ELSE 0

\* raw.slice(from, to + 1), with both indices found
Slice(raw, from, to) == IF from <= to THEN SubSeq(raw, from, to) ELSE <<>>

\* the value the last member of the kind gives; "" when the object has none
MemberValue(inner, kind) ==
    LET at == {i \in 1..Len(inner) : inner[i] \in kind}
    IN  IF at = {} THEN ""
        ELSE inner[CHOOSE i \in at : \A j \in at : j <= i]

\* JSON.parse(jsonStr): <<>> when it throws, else the object's two members
JsonParseReply(s) ==
    IF /\ Len(s) >= 2
       /\ s[1] = "{"
       /\ s[Len(s)] = "}"
       /\ \A i \in 2..(Len(s) - 1) : s[i] \in RegimeMembers \cup AllowMembers
    THEN LET inner == SubSeq(s, 2, Len(s) - 1)
         IN  <<[regime |-> MemberValue(inner, RegimeMembers),
                strategyAllowed |-> MemberValue(inner, AllowMembers)]>>
    ELSE <<>>

\* what classifyRegime gives: whether an exception left it, and its result
Regime(threw, regime, allowed) ==
    [threw |-> threw, regime |-> regime, strategyAllowed |-> allowed]
FailClosed == Regime(FALSE, "unknown", FALSE)

\* mutant of RegimeFromParsed: strategyAllowed is taken from the reply alone
RegimeFromReplyAlone(parsed) ==
    LET regime == IF parsed.regime = "r=range" THEN "range"
                  ELSE IF parsed.regime = "r=trend" THEN "trend"
                  ELSE "unknown"
    IN  Regime(FALSE, regime, parsed.strategyAllowed # "a=false")

\* the try block of classifyRegime, on an object that parsed
RegimeFromParsed(parsed) ==
    LET regime == IF parsed.regime = "r=range" THEN "range"
                  ELSE IF parsed.regime = "r=trend" THEN "trend"
                  ELSE "unknown"
    IN  Regime(FALSE, regime, regime = "range" /\ parsed.strategyAllowed # "a=false")

\* mutant of classifyRegime: without its try / catch
classifyRegimeUncaught(hasKey, raw) ==
    LET firstBrace == IndexOf(raw, "{")
        lastBrace == LastIndexOf(raw, "}")
        parsed == JsonParseReply(Slice(raw, firstBrace, lastBrace))
    IN  IF ~hasKey THEN FailClosed
        ELSE IF firstBrace = 0 \/ lastBrace = 0 THEN Regime(TRUE, "unknown", FALSE)
        ELSE IF parsed = <<>> THEN Regime(TRUE, "unknown", FALSE)
        ELSE RegimeFromParsed(parsed[1])

\* logger.js classifyRegime, given whether the API key is set and the reply
\* of askGoogleAI
classifyRegime(hasKey, raw) ==
    LET firstBrace == IndexOf(raw, "{")
        lastBrace == LastIndexOf(raw, "}")
        parsed == JsonParseReply(Slice(raw, firstBrace, lastBrace))
    IN  IF ~hasKey THEN FailClosed
        ELSE IF firstBrace = 0 \/ lastBrace = 0 THEN FailClosed
        ELSE IF parsed = <<>> THEN FailClosed
        ELSE RegimeFromParsed(parsed[1])

\* logger.js webhook: the regime fields of the record it pushes
RegimeRecord(info) == [regime |-> info.regime, strategyAllowed |-> info.strategyAllowed]

\* the step reached in one message: the reply awaited, the regime returned,
\* the record written
InitRegime ==
    /\ file = Stringify(<<>>)
    /\ now = 1
    /\ pc \in {[at |-> "classify", hasKey |-> k, raw |-> r] : k \in BOOLEAN, r \in Raws}
    /\ last = FailClosed

\* classifyRegime returns
RegimeReturns ==
    /\ pc.at = "classify"
    /\ last' = classifyRegime(pc.hasKey, pc.raw)
    /\ pc' = [pc EXCEPT !.at = "log"]
    /\ UNCHANGED <<file, now>>

\* the reply is sent and the record is pushed and saved
RegimeLogged ==
    /\ pc.at = "log"
    /\ ~last.threw
    /\ \E ok \in BOOLEAN :
         file' = IF ok THEN Stringify(Append(loadTradesAsync(file), RegimeRecord(last)))
                 ELSE file
    /\ pc' = [pc EXCEPT !.at = "done"]
    /\ UNCHANGED <<now, last>>

NextRegime == RegimeReturns \/ RegimeLogged

SpecRegime == InitRegime /\ [][NextRegime]_vars

(***************************************************************************)
(* SpecAsk: one call of askGoogleAI (logger.js 176-286, part_001, and      *)
(* part_002), whatever the AI endpoint answers to each request.            *)
(***************************************************************************)
\* const maxRetry = 2 (part_002: maxBodyRetries)
maxRetry == 2
\* altBodies.length
NumBodies == 3

AskVariants == {"logger.js", "part_001", "part_002"}

\* what axios.post may end with: a body with text, a body without, or a
\* rejection with status 400, 404, 5xx or, after the timeout, none
Outcomes == {"text", "no text", "400", "404", "5xx", "timeout"}

\* the locals of a call: the variant, where it is, the body shape, the
\* attempt counter, whether the user text is (and was at the call) longer
\* than 500 characters, and the requests sent, in all and with this body
Asking(variant, at, bodyIdx, attempt, long, orig, posts, inBody) ==
    [variant |-> variant, at |-> at, bodyIdx |-> bodyIdx, attempt |-> attempt,
     long |-> long, orig |-> orig, posts |-> posts, inBody |-> inBody]

\* the string askGoogleAI returned; "none" while it runs
Answer(kind) == [kind |-> kind]

\* the for loop goes on to the next body shape, or is left
NextBody(st) ==
    IF st.bodyIdx + 1 < NumBodies
    THEN [st EXCEPT !.at = "post", !.bodyIdx = st.bodyIdx + 1, !.attempt = 0, !.inBody = 0,
                    !.long = IF st.variant = "part_001" THEN st.orig ELSE st.long]
    ELSE [st EXCEPT !.at = "returned"]

\* the loop condition attempt <= maxRetry after the counter was raised
Again(st, at) ==
    IF st.attempt <= maxRetry THEN [st EXCEPT !.at = at] ELSE NextBody(st)

\* mutant of Rejected: shortening the text does not use up an attempt
RejectedShortenFree(st, status) ==
    IF status = "400" /\ st.long
    THEN [st EXCEPT !.long = FALSE, !.at = "post"]
    ELSE IF status = "404" /\ st.variant = "part_002"
    THEN NextBody(st)
    ELSE Again([st EXCEPT !.attempt = st.attempt + 1], "sleep")

\* the catch block: the request was rejected with the status
Rejected(st, status) ==
    IF status = "400" /\ st.long
    THEN Again([st EXCEPT !.attempt = st.attempt + 1, !.long = FALSE], "post")
    ELSE IF status = "404" /\ st.variant = "part_002"
    THEN NextBody(st)
    ELSE Again([st EXCEPT !.attempt = st.attempt + 1], "sleep")

InitAsk ==
    /\ file = Stringify(<<>>)
    /\ now = 1
    /\ pc \in {Asking(v, "start", 0, 0, l, l, 0, 0) : v \in AskVariants, l \in BOOLEAN}
    /\ last = Answer("none")

\* askGoogleAI is called: without key it returns the configuration message
AskStarts ==
    /\ pc.at = "start"
    /\ \E hasKey \in BOOLEAN :
         IF hasKey
         THEN /\ pc' = [pc EXCEPT !.at = "post"]
              /\ last' = last
         ELSE /\ pc' = [pc EXCEPT !.at = "returned"]
              /\ last' = Answer("no key")
    /\ UNCHANGED <<file, now>>

\* await axios.post ends
PostEnds ==
    /\ pc.at = "post"
    /\ \E o \in Outcomes :
         LET sent == [pc EXCEPT !.posts = pc.posts + 1, !.inBody = pc.inBody + 1]
             st == Rejected(sent, o)
         IN  IF o = "text"
             THEN /\ pc' = [sent EXCEPT !.at = "returned"]
                  /\ last' = Answer("text")
             ELSE IF o = "no text"
             THEN /\ pc' = [sent EXCEPT !.at = "returned"]
                  /\ last' = Answer("json of the body")
             ELSE /\ pc' = st
                  /\ last' = IF st.at = "returned" THEN Answer("failure message") ELSE last
    /\ UNCHANGED <<file, now>>

\* the backoff timer fires
BackoffEnds ==
    /\ pc.at = "sleep"
    /\ pc' = [pc EXCEPT !.at = "post"]
    /\ UNCHANGED <<file, now, last>>

NextAsk == AskStarts \/ PostEnds \/ BackoffEnds

\* every request ends (axios timeout: 20000) and every timer fires
SpecAsk == InitAsk /\ [][NextAsk]_vars /\ WF_vars(NextAsk)

(***************************************************************************)
(* SpecBatch: one request of the webhook of index.js with its batch of     *)
(* events.  Whatever runs for an event may throw: a malformed event, a     *)
(* fault of the AI or of the ledger after the answer, a fault of the reply.*)
(***************************************************************************)
MaxBatch == 2

\* the events of a batch: text, a close command, an image, another message,
\* an event that is no message, one without reply token, one without message
EventKinds == {"text", "command", "image", "sticker", "follow", "no token", "malformed"}

\* mutant of Caught: the exception leaves the handler
Uncaught(st) == [st EXCEPT !.at = "rejected"]

\* catch (err) of the loop body: the error is logged, the loop goes on
Caught(st) == [st EXCEPT !.i = st.i + 1, !.at = "next", !.caught = st.caught \cup {st.i}]

\* the end of the loop body, and continue
Continue(st) == [st EXCEPT !.i = st.i + 1, !.at = "next"]

InitBatch ==
    /\ file \in {Absent, Stringify(<<>>)}
    /\ now = 1
    /\ pc \in {[events |-> e, i |-> 1, at |-> "next", begun |-> <<>>, caught |-> {}] :
                 e \in SeqsUpTo(EventKinds, MaxBatch)}
    /\ last = [status |-> 0]

\* the loop takes the next event and runs it up to its first await
BatchEvent ==
    /\ pc.at = "next"
    /\ pc.i <= Len(pc.events)
    /\ LET kind == pc.events[pc.i]
           st == [pc EXCEPT !.begun = Append(pc.begun, pc.i)]
       IN  IF kind \in {"no token", "follow"}
           THEN /\ pc' = Continue(st)
                /\ file' = file
           ELSE IF kind = "malformed"
           THEN /\ pc' = Caught(st)
                /\ file' = file
           ELSE IF kind = "command"
           THEN \E c \in {{}, {"sheng"}}, ok \in BOOLEAN :
                  /\ file' = handleResultCommand(file, c, now, ok).file
                  /\ pc' = [st EXCEPT !.at = "reply"]
           ELSE /\ pc' = [st EXCEPT !.at = IF kind = "text" THEN "askAI"
                                           ELSE IF kind = "image" THEN "download"
                                           ELSE "reply"]
                /\ file' = file
    /\ UNCHANGED <<now, last>>

\* await axios.get of the image ends: the inner catch replies and continues
BatchDownloaded ==
    /\ pc.at = "download"
    /\ \E ok \in BOOLEAN : pc' = [pc EXCEPT !.at = IF ok THEN "askAI" ELSE "reply"]
    /\ UNCHANGED <<file, now, last>>

\* await askGoogleAI or askGeminiVision ends; applyRiskAndMaybeLog
BatchAnswer ==
    /\ pc.at = "askAI"
    /\ \E a \in {<<TextLine>>, <<TextLine, JsonLine(Summary(TRUE, TRUE, 1))>>},
          ok \in BOOLEAN, throws \in BOOLEAN :
         IF throws
         THEN /\ pc' = Caught(pc)
              /\ file' = file
         ELSE /\ pc' = [pc EXCEPT !.at = "reply"]
              /\ file' = applyRiskAndMaybeLog(file, a, now, ok).file
    /\ UNCHANGED <<now, last>>

\* await replyToLine ends
BatchReplied ==
    /\ pc.at = "reply"
    /\ \E throws \in BOOLEAN : pc' = IF throws THEN Caught(pc) ELSE Continue(pc)
    /\ UNCHANGED <<file, now, last>>

\* after the loop: res.status(200).send("OK")
BatchAnswered ==
    /\ pc.at = "next"
    /\ pc.i > Len(pc.events)
    /\ pc' = [pc EXCEPT !.at = "done"]
    /\ last' = [status |-> 200]
    /\ UNCHANGED <<file, now>>

NextBatch == BatchEvent \/ BatchDownloaded \/ BatchAnswer \/ BatchReplied \/ BatchAnswered

\* every awaited call ends (each request has a timeout) and the loop runs on
SpecBatch == InitBatch /\ [][NextBatch]_vars /\ WF_vars(NextBatch)

(***************************************************************************)
(* SpecSession: the events of one user of index.js, one after the other,   *)
(* from an empty ledger: trade decisions and close commands, over days.    *)
(* The run of close commands in a row that stored a loss is kept.          *)
(***************************************************************************)
\* records the session may log
MaxOpen == 4

InitSession ==
    /\ file = Stringify(<<>>)
    /\ now = 1
    /\ pc = [run |-> 0]
    /\ last = NoCall

\* a text or image event: the AI answer goes through applyRiskAndMaybeLog
SessionDecision ==
    /\ \E a \in {<<TextLine>>, <<TextLine, JsonLine(Summary(TRUE, TRUE, 1))>>}, ok \in BOOLEAN :
         LET r == applyRiskAndMaybeLog(file, a, now, ok)
         IN  /\ Len(loadTrades(r.file)) <= MaxOpen
             /\ file' = r.file
             /\ last' = Call(a, {}, r.text)
    /\ UNCHANGED <<now, pc>>

\* a close command: handleResultCommand
SessionClose ==
    /\ \E c \in {{}, {"sheng"}, {"bai"}}, ok \in BOOLEAN :
         LET r == handleResultCommand(file, c, now, ok)
         IN  /\ file' = r.file
             /\ last' = Call(<<>>, c, r.text)
             /\ pc' = [run |-> IF r.file = file THEN pc.run
                               ELSE IF r.text.kind = "updated win" THEN 0
                               ELSE IF pc.run < maxConsecutiveLoss THEN pc.run + 1
                               ELSE pc.run]
    /\ UNCHANGED now

NextSession == Tick \/ SessionDecision \/ SessionClose

SpecSession == InitSession /\ [][NextSession]_vars

(***************************************************************************)
(* SpecDash: the dashboard statistics of part_005 over the ledger that the *)
(* image branch of its webhook fills from the analysis of the AI.          *)
(***************************************************************************)
\* records the ledger may grow to in SpecDash
MaxDash == 3
\* trades.slice(-30)
recentWindow == 30

\* the record of the image branch, as far as computeStats reads it: the
\* trade_result of the analysis, and its r_multiple when that is a number
DashTrade(result, rIsNum, r) == [result |-> result, rIsNum |-> rIsNum, rMultiple |-> r]

\* a quotient of the statistics, kept as numerator and denominator
Ratio(n, d) == [num |-> n, den |-> d]

\* const r = typeof t.rMultiple === "number" ? t.rMultiple : 0
RMultiple(t) == IF t.rIsNum THEN t.rMultiple ELSE 0

\* the forEach of computeStats from record i on, with the values of its
\* accumulators so far
RECURSIVE StatsLoop(_, _, _)
StatsLoop(trades, i, acc) ==
    IF i > Len(trades) THEN acc
    ELSE LET t == trades[i]
             equity == acc.equity + RMultiple(t)
             peak == IF equity > acc.peak THEN equity ELSE acc.peak
             dd == peak - equity
             cur == IF t.result = "lose" THEN acc.curConsecLoss + 1
                    ELSE IF t.result = "win" THEN 0
                    ELSE acc.curConsecLoss
         IN  StatsLoop(trades, i + 1,
                [winCount |-> acc.winCount + (IF t.result = "win" THEN 1 ELSE 0),
                 loseCount |-> acc.loseCount + (IF t.result = "lose" THEN 1 ELSE 0),
                 curConsecLoss |-> cur,
                 maxConsecLoss |-> IF cur > acc.maxConsecLoss THEN cur ELSE acc.maxConsecLoss,
                 totalR |-> acc.totalR + RMultiple(t),
                 equity |-> equity,
                 peak |-> peak,
                 maxDrawdown |-> IF dd > acc.maxDrawdown THEN dd ELSE acc.maxDrawdown,
                 equityCurve |-> Append(acc.equityCurve, equity)])

\* part_005 computeStats
computeStatsDashboard(trades) ==
    LET zero == [winCount |-> 0, loseCount |-> 0, curConsecLoss |-> 0, maxConsecLoss |-> 0,
                 totalR |-> 0, equity |-> 0, peak |-> 0, maxDrawdown |-> 0,
                 equityCurve |-> <<>>]
        acc == StatsLoop(trades, 1, zero)
        recent == SliceLast(trades, recentWindow)
        rWin == Len(SelectSeq(recent, LAMBDA t : t.result = "win"))
    IN  IF Len(trades) = 0
        THEN [total |-> 0, winCount |-> 0, loseCount |-> 0, winRate |-> Ratio(0, 1),
              avgR |-> Ratio(0, 1), totalR |-> 0, maxDrawdown |-> 0,
              maxConsecutiveLosses |-> 0, last30WinRate |-> Ratio(0, 1),
              equityCurve |-> <<>>]
        ELSE [total |-> Len(trades), winCount |-> acc.winCount, loseCount |-> acc.loseCount,
              winRate |-> Ratio(acc.winCount * 100, Len(trades)),
              avgR |-> Ratio(acc.totalR, Len(trades)),
              totalR |-> acc.totalR, maxDrawdown |-> acc.maxDrawdown,
              maxConsecutiveLosses |-> acc.maxConsecLoss,
              last30WinRate |-> Ratio(rWin * 100, Len(recent)),
              equityCurve |-> acc.equityCurve]

InitDash ==
    /\ file = Stringify(<<>>)
    /\ now = 1
    /\ pc = <<>>
    /\ last = [op |-> "none", stats |-> computeStatsDashboard(<<>>)]

\* the image branch of the webhook: loadTrades, push, saveTrades
DashAppend ==
    /\ Len(file.arr) < MaxDash
    /\ \E result \in {"win", "lose", "none"}, rIsNum \in BOOLEAN, ok \in BOOLEAN :
         \E r \in IF rIsNum THEN {1, -1} ELSE {0} :
            LET trades == loadTrades5(file, TRUE, TRUE).value
            IN  /\ file' = saveTrades5(file, Append(trades, DashTrade(result, rIsNum, r)), ok)
                /\ last' = [op |-> "append", stats |-> last.stats]
    /\ UNCHANGED <<now, pc>>

\* GET /api/stats
DashStats ==
    /\ last' = [op |-> "stats", stats |-> computeStatsDashboard(loadTrades5(file, TRUE, TRUE).value)]
    /\ UNCHANGED <<file, now, pc>>

NextDash == DashAppend \/ DashStats

SpecDash == InitDash /\ [][NextDash]_vars

(***************************************************************************)
(* SpecMemory: the conversation memory of logger.js.  Here last holds      *)
(* userMemory and what the last call did, and pc holds, for each user,     *)
(* every entry that was ever added (kept for the properties only).         *)
(***************************************************************************)
\* messages that are added for one user in SpecMemory
MaxAdded == 22
\* if (mem.history.length > 20) mem.history = mem.history.slice(-20)
historyCap == 20
\* mem.history.slice(-8)
contextWindow == 8

\* the user ids of the events; "" is an event without userId
UserIds == {"u1", "u2", ""}

\* mutant of addUserMessage: the history is never cut
addUserMessageUncut(mem, userId, role, text, ts) ==
    IF userId = "" THEN mem
    ELSE LET m == IF userId \in DOMAIN mem THEN mem ELSE mem @@ (userId :> [history |-> <<>>])
         IN  [m EXCEPT ![userId].history = Append(@, [role |-> role, text |-> text, ts |-> ts])]

\* logger.js addUserMessage on the Map userMemory
addUserMessage(mem, userId, role, text, ts) ==
    IF userId = "" THEN mem
    ELSE LET m == IF userId \in DOMAIN mem THEN mem ELSE mem @@ (userId :> [history |-> <<>>])
             pushed == Append(m[userId].history, [role |-> role, text |-> text, ts |-> ts])
         IN  [m EXCEPT ![userId].history =
                 IF Len(pushed) > historyCap THEN SliceLast(pushed, historyCap) ELSE pushed]

\* logger.js buildUserContext: the lines it joins; <<>> stands for the fixed
\* text without history
buildUserContext(mem, userId) ==
    IF userId \notin DOMAIN mem \/ Len(mem[userId].history) = 0 THEN <<>>
    ELSE LET lastItems == SliceLast(mem[userId].history, contextWindow)
         IN  [i \in 1..Len(lastItems) |->
                 <<IF lastItems[i].role = "user" THEN "user" ELSE "coach", lastItems[i].text>>]

InitMemory ==
    /\ file = Stringify(<<>>)
    /\ now = 1
    /\ pc = [u \in UserIds |-> <<>>]
    /\ last = [mem |-> <<>>, op |-> "none", out |-> <<>>]

\* a message of the user, or the reply to it, is added: the text branch adds
\* the text of the user and then the reply (530, 536); the text is taken to
\* be the number of the message
MemoryAdd ==
    /\ \E u \in UserIds :
         LET k == Len(pc[u]) + 1
             role == IF k % 2 = 1 THEN "user" ELSE "assistant"
         IN  /\ k <= MaxAdded
             /\ last' = [mem |-> addUserMessage(last.mem, u, role, k, now),
                         op |-> "add", out |-> <<>>]
             /\ pc' = [pc EXCEPT ![u] = Append(@, [role |-> role, text |-> k, ts |-> now])]
    /\ UNCHANGED <<file, now>>

\* the context of a user is built for the prompt
MemoryContext ==
    /\ \E u \in UserIds :
         last' = [mem |-> last.mem, op |-> "context", out |-> buildUserContext(last.mem, u)]
    /\ UNCHANGED <<file, now, pc>>

NextMemory == MemoryAdd \/ MemoryContext

SpecMemory == InitMemory /\ [][NextMemory]_vars

(***************************************************************************)
(* SpecRate: the rate limiter of part_002.  Here last holds rateMap and    *)
(* the answer of the last call, now is Date.now() in milliseconds, and pc  *)
(* holds, for each user, the window as the requests themselves define it:  *)
(* its first request and how many requests of it were admitted.            *)
(***************************************************************************)
\* the clock stops here in SpecRate
MaxClock == 20004
\* requests counted in one window of one user in SpecRate
MaxCount == 7
\* const RATE_LIMIT_WINDOW_MS = 10_000
RATE_LIMIT_WINDOW_MS == 10000
\* const RATE_LIMIT_MAX = 5
RATE_LIMIT_MAX == 5

\* the ids isRateLimited is called with: userId, groupId, or "unknown"
RateIds == {"u1", "u2"}

\* mutant of isRateLimited: a rejected request starts the window again
isRateLimitedSliding(rateMap, userId, t) ==
    LET entry == IF userId \in DOMAIN rateMap THEN rateMap[userId] ELSE [ts |-> t, count |-> 0]
        set(e) == IF userId \in DOMAIN rateMap THEN [rateMap EXCEPT ![userId] = e]
                  ELSE rateMap @@ (userId :> e)
    IN  IF t - entry.ts > RATE_LIMIT_WINDOW_MS
        THEN [rateMap |-> set([ts |-> t, count |-> 1]), limited |-> FALSE]
        ELSE [rateMap |-> set([ts |-> IF entry.count + 1 > RATE_LIMIT_MAX THEN t ELSE entry.ts,
                                count |-> entry.count + 1]),
              limited |-> entry.count + 1 > RATE_LIMIT_MAX]

\* part_002 isRateLimited: the new rateMap and the value returned
isRateLimited(rateMap, userId, t) ==
    LET entry == IF userId \in DOMAIN rateMap THEN rateMap[userId] ELSE [ts |-> t, count |-> 0]
        set(e) == IF userId \in DOMAIN rateMap THEN [rateMap EXCEPT ![userId] = e]
                  ELSE rateMap @@ (userId :> e)
    IN  IF t - entry.ts > RATE_LIMIT_WINDOW_MS
        THEN [rateMap |-> set([ts |-> t, count |-> 1]), limited |-> FALSE]
        ELSE [rateMap |-> set([ts |-> entry.ts, count |-> entry.count + 1]),
              limited |-> entry.count + 1 > RATE_LIMIT_MAX]

InitRate ==
    /\ file = Stringify(<<>>)
    /\ now = 1
    /\ pc = [u \in RateIds |-> [start |-> 0, admitted |-> 0, open |-> FALSE]]
    /\ last = [rateMap |-> <<>>, id |-> "", limited |-> FALSE]

\* time passes: half the length of the window, or a millisecond more, so
\* that a request comes 10000 ms and 10001 ms after another
RateClock ==
    /\ \E d \in {RATE_LIMIT_WINDOW_MS \div 2, RATE_LIMIT_WINDOW_MS \div 2 + 1} :
         /\ now + d <= MaxClock
         /\ now' = now + d
    /\ UNCHANGED <<file, pc, last>>

\* a message event of a user reaches the webhook: isRateLimited(userId)
RateRequest ==
    /\ \E u \in RateIds :
         LET r == isRateLimited(last.rateMap, u, now)
             w == pc[u]
             fresh == ~w.open \/ now - w.start > 10000
         IN  /\ r.rateMap[u].count <= MaxCount
             /\ last' = [rateMap |-> r.rateMap, id |-> u, limited |-> r.limited]
             /\ pc' = [pc EXCEPT ![u] =
                          IF fresh THEN [start |-> now, admitted |-> 1, open |-> TRUE]
                          ELSE [w EXCEPT !.admitted = IF r.limited THEN @ ELSE @ + 1]]
    /\ UNCHANGED <<file, now>>

NextRate == RateClock \/ RateRequest

SpecRate == InitRate /\ [][NextRate]_vars

(***************************************************************************)
(* SpecLog: the interaction log of package.json (a copy of the bot under   *)
(* that name): trades.json holds the entries and the counters of them.     *)
(* Here file is [kind, data]: absent, a log with its data, or cut (a       *)
(* write that ended after the file was truncated).                         *)
(***************************************************************************)
\* entries the log may grow to in SpecLog
MaxEntries == 4
\* while (last.length > 3) last.shift()
lastResultsKept == 3

\* what fs.writeFileSync may do: write the text, fail before it touches the
\* file, or fail after it truncated the file
WriteOutcomes == {"written", "failed", "cut"}

\* the phrases extractMetaFromAnswer looks for that an AI text may hold
AiTexts == SUBSET {"wait phrase", "enter phrase"}

getDefaultTradesData ==
    [trades |-> <<>>, stats |-> [total_trades |-> 0, last_3_results |-> <<>>]]

LogAbsent == [kind |-> "absent", data |-> getDefaultTradesData]

\* fs.writeFileSync(TRADES_LOG_PATH, JSON.stringify(data))
WriteLog(f, data, w) ==
    IF w = "written" THEN [kind |-> "log", data |-> data]
    ELSE IF w = "cut" THEN [kind |-> "cut", data |-> getDefaultTradesData]
    ELSE f

\* package.json loadTradesLog: the data returned and the file left behind;
\* w is what its call of the file system does: the write of the initial
\* file, or the read of the file that exists (failed: it throws)
loadTradesLog(f, w) ==
    IF f.kind = "absent" THEN [file |-> WriteLog(f, getDefaultTradesData, w),
                               data |-> getDefaultTradesData]
    ELSE IF f.kind = "log" /\ w # "failed" THEN [file |-> f, data |-> f.data]
    ELSE [file |-> f, data |-> getDefaultTradesData]

\* package.json saveTradesLog
saveTradesLog(f, data, w) == WriteLog(f, data, w)

\* package.json extractMetaFromAnswer: the suggestion
extractMetaFromAnswer(aiText) ==
    IF "wait phrase" \in aiText THEN "wait"
    ELSE IF "enter phrase" \in aiText THEN "enter"
    ELSE "unknown"

\* mutant of recordInteraction: last_3_results is not cut to three
recordInteractionKeepsAll(f, aiText, w1, w2) ==
    LET r == loadTradesLog(f, w1)
        suggestion == extractMetaFromAnswer(aiText)
        data == [trades |-> Append(r.data.trades, [ai_text |-> aiText, suggestion |-> suggestion]),
                 stats |-> [total_trades |-> r.data.stats.total_trades + 1,
                            last_3_results |-> Append(r.data.stats.last_3_results, suggestion)]]
    IN  saveTradesLog(r.file, data, w2)

\* package.json recordInteraction: the file it leaves
recordInteraction(f, aiText, w1, w2) ==
    LET r == loadTradesLog(f, w1)
        suggestion == extractMetaFromAnswer(aiText)
        data == [trades |-> Append(r.data.trades, [ai_text |-> aiText, suggestion |-> suggestion]),
                 stats |-> [total_trades |-> r.data.stats.total_trades + 1,
                            last_3_results |->
                                SliceLast(Append(r.data.stats.last_3_results, suggestion),
                                          lastResultsKept)]]
    IN  saveTradesLog(r.file, data, w2)

InitLog ==
    /\ file \in {LogAbsent, [kind |-> "log", data |-> getDefaultTradesData]}
    /\ now = 1
    /\ pc = <<>>
    /\ last = [wrote |-> "none", failed |-> FALSE]

\* an answer was sent: recordInteraction
LogInteraction ==
    /\ Len(file.data.trades) < MaxEntries
    /\ \E aiText \in AiTexts, w1 \in WriteOutcomes, w2 \in WriteOutcomes :
         /\ file' = recordInteraction(file, aiText, w1, w2)
         /\ last' = [wrote |-> w2, failed |-> last.failed \/ w2 = "failed"]
    /\ UNCHANGED <<now, pc>>

NextLog == LogInteraction

SpecLog == InitLog /\ [][NextLog]_vars

(***************************************************************************)
(* Properties of index.js.                                                 *)
(***************************************************************************)
\* the indices of the finished records of a ledger
TerminalAt(trades) == {i \in 1..Len(trades) : trades[i].result \in {"win", "loss"}}

\* the last three finished records exist and are all losses
LastThreeAreLosses(trades) ==
    LET term == TerminalAt(trades)
        lastThree == {i \in term : Cardinality({j \in term : j > i}) < 3}
    IN  /\ Cardinality(term) >= 3
        /\ \A i \in lastThree : trades[i].result = "loss"

\* the AI answer ends in a JSON line that carries a trade decision
IsTradeAnswer(a) ==
    /\ Len(a) > 0
    /\ a[Len(a)].kind = "json"
    /\ a[Len(a)].sum.is_trade

\* the step just taken ran applyRiskAndMaybeLog
RanDecision(c) == c.text.kind \in {"plain", "blocked", "logged"}

\* the step just taken ran handleResultCommand
RanCommand(c) ==
    c.text.kind \in {"help", "norecords", "nopending", "updated win", "updated loss"}

HasWinWord(c) == \E w \in c : Lower(w) \in WinWords
HasLossWord(c) == \E w \in c : Lower(w) \in LossWords

\* C1: whenever the last three finished records of the stored ledger (pending
\* records skipped) are all losses, the gate answers allow = false on every
\* day, and a call of the gate on that ledger is answered with a block.
C1_ThreeLossesBlock ==
    LastThreeAreLosses(loadTrades(file)) =>
        /\ \A d \in Days : ~evaluateRiskBeforeNewTrade(file, d).allow
        /\ last.text.kind # "gate allow"

\* C1 witness: the gate was called and blocked for the streak on a ledger of
\* four records whose three losses were closed on another day and have a
\* pending record between them.
C1_Witness ==
    LET trades == loadTrades(file)
    IN  /\ last.text.kind = "gate block"
        /\ last.text.msg.rule = "consecutive"
        /\ Len(trades) = 4
        /\ trades[1].result = "loss" /\ trades[2].result = "pending"
        /\ trades[3].result = "loss" /\ trades[4].result = "loss"
        /\ \A i \in {1, 3, 4} : trades[i].closedAt # now

\* the sum the claim states: +risk_r for a win, -risk_r for a loss, over the
\* finished records closed (or, without closedAt, created) on the day
RECURSIVE ClaimedDayR(_, _)
ClaimedDayR(trades, day) ==
    IF trades = <<>> THEN 0
    ELSE LET t == Head(trades)
             onDay == IF t.closedAt # NullTime THEN t.closedAt = day ELSE t.time = day
             r == IF t.result = "win" /\ onDay THEN t.risk_r
                  ELSE IF t.result = "loss" /\ onDay THEN -t.risk_r
                  ELSE 0
         IN  r + ClaimedDayR(Tail(trades), day)

\* C2 (as claimed): whenever the signed risk units of today's finished records,
\* +risk_r for a win and -risk_r for a loss, sum to at most -3, the gate
\* answers allow = false.
C2_DailyLossBlocks ==
    ClaimedDayR(loadTrades(file), now) <= maxDailyLossR =>
        ~evaluateRiskBeforeNewTrade(file, now).allow

\* C3: when applyRiskAndMaybeLog is given a trade decision and the gate
\* answers allow = false, the stored ledger is unchanged, and the returned
\* text is the gate message followed by the complete AI text.
C3_BlockedKeepsLedgerAndText ==
    [][(/\ RanDecision(last')
        /\ IsTradeAnswer(last'.ans)
        /\ ~evaluateRiskBeforeNewTrade(file, now).allow)
       => /\ file' = file
          /\ last'.text.kind = "blocked"
          /\ last'.text.msg = evaluateRiskBeforeNewTrade(file, now).message
          /\ last'.text.msg.rule # "none"
          /\ last'.text.body = last'.ans]_vars

\* C3 witness: a trade decision was blocked on a ledger that holds records.
C3_Witness ==
    /\ last.text.kind = "blocked"
    /\ IsTradeAnswer(last.ans)
    /\ Len(loadTrades(file)) > 0

\* C4: a close command with a win or loss word on a ledger without a pending
\* record replies that there is no open position and leaves the file as it is.
C4_CloseWithoutOpen ==
    [][(/\ RanCommand(last')
        /\ HasWinWord(last'.cmd) \/ HasLossWord(last'.cmd)
        /\ \A i \in 1..Len(loadTrades(file)) :
              loadTrades(file)[i].result \in {"win", "loss"})
       => /\ file' = file
          /\ last'.text.kind \in {"norecords", "nopending"}]_vars

\* C4 witness: a close command found every record of a non-empty ledger finished.
C4_Witness ==
    /\ last.text.kind = "nopending"
    /\ Len(loadTrades(file)) > 0
    /\ HasWinWord(last.cmd) \/ HasLossWord(last.cmd)

\* C5 (as claimed): a close command whose text has no win or loss word, or has
\* both, replies with the help message and leaves the file as it is.
C5_AmbiguousGetsHelp ==
    [][(/\ RanCommand(last')
        /\ HasWinWord(last'.cmd) = HasLossWord(last'.cmd))
       => /\ file' = file
          /\ last'.text.kind = "help"]_vars

\* C6: a record is appended with result pending and closedAt null; a record
\* that is win or loss keeps its result and its closedAt in every later step,
\* and a pending record changes to nothing but win or loss.
C6_ResultChangesOnce ==
    [][LET old == loadTrades(file)
           new == loadTrades(file')
       IN  /\ Len(new) >= Len(old)
           /\ \A i \in 1..Len(old) :
                 /\ old[i].result \in {"win", "loss"} =>
                       /\ new[i].result = old[i].result
                       /\ new[i].closedAt = old[i].closedAt
                 /\ new[i].result # old[i].result =>
                       /\ old[i].result = "pending"
                       /\ new[i].result \in {"win", "loss"}
                       /\ new[i].closedAt # NullTime
           /\ \A i \in (Len(old) + 1)..Len(new) :
                 new[i].result = "pending" /\ new[i].closedAt = NullTime]_vars

\* C6 witness: a record closed on day 1 is still as it was after a close
\* command on day 2 closed another record.
C6_Witness ==
    LET trades == loadTrades(file)
    IN  /\ RanCommand(last)
        /\ now = 2
        /\ \E i, j \in 1..Len(trades) :
              /\ trades[i].result = "win" /\ trades[i].closedAt = 1
              /\ trades[j].result = "loss" /\ trades[j].closedAt = 2

\* C8: appending a record leaves every statistic of computeStats and the
\* answer of the gate, on every day, as they were.
C8_AppendKeepsStats ==
    [][last'.text.kind = "appended"
       => /\ computeStats(loadTrades(file')) = computeStats(loadTrades(file))
          /\ \A d \in Days :
                evaluateRiskBeforeNewTrade(file', d) = evaluateRiskBeforeNewTrade(file, d)]_vars

\* C8 witness: a pending record was appended to a ledger with finished
\* records for which the gate blocks.
C8_Witness ==
    LET trades == loadTrades(file)
    IN  /\ last.text.kind = "appended"
        /\ Len(trades) = MaxTrades + 1
        /\ trades[Len(trades)].result = "pending"
        /\ computeStats(trades).total >= 3
        /\ ~evaluateRiskBeforeNewTrade(file, now).allow

\* C9: with requests in flight, a step that adds a record to the stored
\* ledger is one run of applyRiskAndMaybeLog that starts from a ledger for
\* which the gate allows and adds exactly that one pending record; nothing
\* else of the ledger changes in the step.
C9_AppendOnlyWhenAllowed ==
    [][Len(loadTrades(file')) > Len(loadTrades(file))
       => /\ evaluateRiskBeforeNewTrade(file, now).allow
          /\ last'.text.kind = "logged"
          /\ Len(loadTrades(file')) = Len(loadTrades(file)) + 1
          /\ SubSeq(loadTrades(file'), 1, Len(loadTrades(file))) = loadTrades(file)]_vars

\* C9 witness: a second record was logged by one request while the other
\* request was suspended at its AI call.
C9_Witness ==
    /\ last.text.kind = "logged"
    /\ \E p \in Reqs : pc[p] = "askAI"
    /\ \E p \in Reqs : pc[p] = "reply"
    /\ Len(loadTrades(file)) = 2

(***************************************************************************)
(* Properties of the ledger variants.                                      *)
(***************************************************************************)
\* C7: whenever an operation of any variant reads a file whose content is not
\* valid JSON, or is valid JSON that is not an array, no exception leaves the
\* operation and the collection it works on is empty.
C7_LoadersReturnEmpty ==
    last.before \in {"garbage", "object", "null"} =>
        /\ ~last.threw
        /\ last.value = <<>>

\* the ids of the records the stored ledger holds
StoredIds == {loadTradesAsync(file)[i].id : i \in 1..Len(loadTradesAsync(file))}

\* C10: once every request has finished, each record whose save completed is
\* in the stored ledger: no append has overwritten another.
C10_NoLostUpdate ==
    (\A p \in Reqs : pc[p].at = "idle") =>
        \A p \in Reqs : \A k \in pc[p].wrote : <<p, k>> \in StoredIds

\* C17 (as claimed): a step that serves a read of the ledger (GET /api/trades,
\* GET /api/stats, a statistics read) leaves the stored file as it was,
\* whatever the file holds.
C17_ReadsLeaveLedger ==
    [][last'.op = "read" => file' = file]_vars

\* C19 (as claimed): every record of the stored ledger has a risk_r that is a
\* positive number.
C19_RiskPositive ==
    \A i \in 1..Len(loadTrades(file)) : loadTrades(file)[i].risk_r > 0

(***************************************************************************)
(* Properties of the decision extraction.                                  *)
(***************************************************************************)
\* the line is a JSON object once its white space is removed
IsObjectLine(l) == NoSpace(l) \in {<<"{", "}">>, <<"{", "t", "}">>, <<"{", "f", "}">>}

\* C18: no call of extractDecisionSummary or applyRiskAndMaybeLog ends with
\* an exception, whatever the text; a call gives the same summary as the call
\* before it on the same text, and a summary only for a text that has a JSON
\* object line; when the summary is null, applyRiskAndMaybeLog leaves the
\* file as it is and returns the text as it was given.
C18_ExtractNeverThrows ==
    [][last'.op # "none" =>
         /\ ~last'.threw
         /\ ~last'.out.threw
         /\ last.op # "none" => last'.out = last.out
         /\ last'.out.sum # <<>> => \E i \in 1..Len(pc.text) : IsObjectLine(pc.text[i])
         /\ (last'.op = "apply" /\ last'.out.sum = <<>>) =>
               /\ file' = file
               /\ last'.reply.kind = "plain"
               /\ last'.reply.body = pc.text]_vars

\* C18 witness: applyRiskAndMaybeLog returned, unmodified, a two-line text
\* whose last line holds two brace spans, on a ledger that holds a record.
C18_Witness ==
    /\ last.op = "apply"
    /\ last.out.sum = <<>>
    /\ last.reply.body = pc.text
    /\ Len(pc.text) = 2
    /\ pc.text[2] = <<"{", "t", "}", "{", "f", "}">>
    /\ Len(loadTrades(file)) = 1

(***************************************************************************)
(* Properties of the records' fields.                                      *)
(***************************************************************************)
\* C12 (as claimed): the records of the stored ledger have ids that differ
\* from one another, also when two are appended in the same millisecond.
C12_IdsUnique ==
    \A i \in 1..Len(file.arr) : \A j \in 1..Len(file.arr) :
        file.arr[i].id = file.arr[j].id => i = j

\* C20 (as claimed): every record of the stored ledger has a direction among
\* long, short, none, unknown and, where it has one, a market state among
\* range, trend, unknown.
C20_FieldsInVocabulary ==
    \A i \in 1..Len(file.arr) :
        /\ file.arr[i].direction \in {"long", "short", "none", "unknown", NoField}
        /\ file.arr[i].marketState \in {"range", "trend", "unknown", NoField}

(***************************************************************************)
(* Properties of the write of the ledger.                                  *)
(***************************************************************************)
\* C11 (as claimed): after the process has stopped during saveTrades, what
\* loadTrades returns is the whole collection from before the write or the
\* whole collection that was being written.
C11_CrashKeepsLedger ==
    pc.at = "crashed" => loadTrades(file) \in {pc.old, pc.new}

(***************************************************************************)
(* Properties of the regime classifier.                                    *)
(***************************************************************************)
\* the reply has an opening brace with a closing brace after it
HasBraceSpan(raw) == \E i \in 1..Len(raw), j \in 1..Len(raw) : i < j /\ raw[i] = "{" /\ raw[j] = "}"

\* the reply from its first opening brace to its last closing brace
BraceSpan(raw) ==
    SubSeq(raw, CHOOSE i \in 1..Len(raw) : raw[i] = "{" /\ \A k \in 1..(i - 1) : raw[k] # "{",
                CHOOSE j \in 1..Len(raw) : raw[j] = "}" /\ \A k \in (j + 1)..Len(raw) : raw[k] # "}")

\* the reply holds no span that parses as a JSON object
FailsToParse(raw) == ~HasBraceSpan(raw) \/ JsonParseReply(BraceSpan(raw)) = <<>>

\* the object of the reply gives strategyAllowed the value false
ReplySetsFalse(raw) ==
    /\ ~FailsToParse(raw)
    /\ JsonParseReply(BraceSpan(raw))[1].strategyAllowed = "a=false"

\* C13: when the API key is missing, or the reply has no brace span, or its
\* span is not valid JSON, classifyRegime returns regime unknown and
\* strategyAllowed false, and no exception leaves it.
C13_ClassifyFailsClosed ==
    (pc.at \in {"log", "done"} /\ (~pc.hasKey \/ FailsToParse(pc.raw))) =>
        /\ ~last.threw
        /\ last.regime = "unknown"
        /\ ~last.strategyAllowed

\* C13 witness: classifyRegime returned unknown / false for a reply whose
\* span, an object that says range followed by a second closing brace, does
\* not parse.
C13_Witness ==
    /\ pc.at = "log"
    /\ pc.hasKey
    /\ pc.raw = <<"{", "r=range", "}", "}">>
    /\ last = FailClosed

\* C14: a classifyRegime result with strategyAllowed true has regime range
\* and comes from a reply that did not set strategyAllowed to false, and
\* every record written carries the regime and strategyAllowed of the
\* result, so the same holds for it.
C14_AllowedOnlyInRange ==
    /\ (pc.at \in {"log", "done"} /\ last.strategyAllowed) =>
          /\ last.regime = "range"
          /\ ~ReplySetsFalse(pc.raw)
    /\ \A i \in 1..Len(loadTradesAsync(file)) :
          /\ loadTradesAsync(file)[i] = RegimeRecord(last)
          /\ loadTradesAsync(file)[i].strategyAllowed => loadTradesAsync(file)[i].regime = "range"

\* C14 witness: a record with strategyAllowed true was written from a reply
\* that says range and gives strategyAllowed a value that is not a boolean.
C14_Witness ==
    /\ pc.at = "done"
    /\ pc.raw = <<"{", "r=range", "a=other", "}">>
    /\ Len(loadTradesAsync(file)) = 1
    /\ loadTradesAsync(file)[1].strategyAllowed

C16_BatchAnswered200 ==
    /\ [](/\ pc.at # "rejected"
          /\ \A j \in 1..Len(pc.begun) : pc.begun[j] = j
          /\ pc.caught \subseteq 1..Len(pc.begun)
          /\ last.status \in {0, 200}
          /\ last.status = 200 <=> pc.at = "done"
          /\ pc.at = "done" => Len(pc.begun) = Len(pc.events))
    /\ <>(last.status = 200)

\* C16 witness: the first event of a batch of two threw, the second was
\* processed after it, and the request was answered with 200.
C16_Witness ==
    /\ last.status = 200
    /\ Len(pc.events) = 2
    /\ 1 \in pc.caught
    /\ pc.begun = <<1, 2>>
    /\ pc.events[2] = "text"
    /\ Len(loadTrades(file)) = 1

(***************************************************************************)
(* Properties of a session of index.js.                                    *)
(***************************************************************************)
\* C23 (as claimed): after three close commands in a row that each stored a
\* loss, with no win stored in between, the gate blocks the next trade
\* decision, in whatever order the closed records stand in the ledger.
C23_ThreeLossClosesBlock ==
    pc.run >= maxConsecutiveLoss => ~evaluateRiskBeforeNewTrade(file, now).allow

\* C24: once the last three finished records are losses and no record is
\* pending, every step leaves the ledger and the gate's answer as they are:
\* a trade decision is blocked, a close command finds no open position.
C24_StopIsNeverLifted ==
    [][(/\ LastThreeAreLosses(loadTrades(file))
        /\ LastPending(loadTrades(file)) = 0)
       => /\ file' = file
          /\ ~evaluateRiskBeforeNewTrade(file', now').allow
          /\ evaluateRiskBeforeNewTrade(file', now') = evaluateRiskBeforeNewTrade(file, now)
          /\ (RanDecision(last') /\ IsTradeAnswer(last'.ans)) => last'.text.kind = "blocked"
          /\ (RanCommand(last') /\ (HasWinWord(last'.cmd) \/ HasLossWord(last'.cmd)))
                => last'.text.kind = "nopending"]_vars

\* C24 witness: a day after the three losses were closed, with no record
\* pending, a trade decision was blocked for the streak.
C24_Witness ==
    LET trades == loadTrades(file)
    IN  /\ LastThreeAreLosses(trades)
        /\ LastPending(trades) = 0
        /\ last.text.kind = "blocked"
        /\ last.text.msg.rule = "consecutive"
        /\ now = 2
        /\ \A i \in 1..Len(trades) : trades[i].closedAt = 1

\* C25: a close command that changes the stored ledger changes exactly one
\* record, the pending record nearest the end, by setting its result and its
\* closedAt; the other records, their order and their number stay, and the
\* request goes to its reply without an AI call.
C25_CloseChangesOneRecord ==
    [][(RanCommand(last') /\ file' # file)
       => LET old == loadTrades(file)
              new == loadTrades(file')
              open == {i \in 1..Len(old) : old[i].result \notin {"win", "loss"}}
          IN  /\ last'.text.kind \in {"updated win", "updated loss"}
              /\ Len(new) = Len(old)
              /\ open # {}
              /\ \A i \in 1..Len(old) :
                    IF \A j \in open : j <= i /\ i \in open
                    THEN /\ new[i].result \in {"win", "loss"}
                         /\ new[i].closedAt = now
                         /\ new[i] = [old[i] EXCEPT !.result = new[i].result, !.closedAt = now]
                    ELSE new[i] = old[i]
              /\ last'.ans = <<>>
              /\ \A p \in Reqs : pc'[p] = "askAI" => pc[p] = "askAI"]_vars

\* C25 witness: the first of two records was closed on day 2, after the
\* second had been closed on day 1.
C25_Witness ==
    LET trades == loadTrades(file)
    IN  /\ last.text.kind = "updated loss"
        /\ Len(trades) = 2
        /\ trades[1].result = "loss" /\ trades[1].closedAt = 2
        /\ trades[2].result = "win" /\ trades[2].closedAt = 1
        /\ now = 2

\* the losses at the end of the finished records of a ledger
StreakAtEnd(trades) ==
    LET term == TerminalAt(trades)
    IN  Cardinality({i \in term : \A j \in term : j >= i => trades[j].result = "loss"})

\* C26 (as claimed): the consecutive-loss stop is looked at first: when it
\* holds, alone or with the daily stop, the message is the consecutive-loss
\* message with the streak; when only the daily stop holds, the message is
\* the daily message with today's R; allow = true comes with no message.
C26_FirstStopWins ==
    LET trades == loadTrades(file)
        r == evaluateRiskBeforeNewTrade(file, now)
        streak == StreakAtEnd(trades)
        dayR == ClaimedDayR(trades, now)
    IN  /\ streak >= maxConsecutiveLoss
           => /\ ~r.allow
              /\ r.message = [rule |-> "consecutive", n |-> streak]
        /\ (streak < maxConsecutiveLoss /\ dayR <= maxDailyLossR)
           => /\ ~r.allow
              /\ r.message = [rule |-> "daily", n |-> dayR]
        /\ r.allow => r.message = NoMessage
        /\ r.allow => (streak < maxConsecutiveLoss /\ dayR > maxDailyLossR)

\* C27 (as claimed): a close command that replies that the result was
\* updated has stored the close, and the statistics it shows are those of
\* the stored ledger.
C27_SuccessMeansStored ==
    [][last'.text.kind \in {"updated win", "updated loss"}
       => /\ file' # file
          /\ last'.text.stats = <<computeStats(loadTrades(file'))>>]_vars

(***************************************************************************)
(* Properties of the dashboard statistics.                                 *)
(***************************************************************************)
\* the equity curve the claim states: over the finished records in their
\* order, the running sum of +R for a win and -R for a loss
RECURSIVE ClaimedCurve(_)
ClaimedCurve(trades) ==
    IF trades = <<>> THEN <<>>
    ELSE LET t == trades[Len(trades)]
             pre == ClaimedCurve(SubSeq(trades, 1, Len(trades) - 1))
             prev == IF pre = <<>> THEN 0 ELSE pre[Len(pre)]
         IN  IF t.result = "win" THEN Append(pre, prev + RMultiple(t))
             ELSE IF t.result = "lose" THEN Append(pre, prev - RMultiple(t))
             ELSE pre

\* the largest drop from a point of a curve to a later point of it
LargestDrop(curve) ==
    LET later == {0} \cup UNION {{curve[i] - curve[j] : j \in i..Len(curve)} : i \in 1..Len(curve)}
    IN  CHOOSE d \in later : \A e \in later : e <= d

\* C21 (as claimed): the statistics of the dashboard give as maxDrawdown the
\* largest drop of the equity curve, the running sum of +R for a win and
\* -R for a loss, from a peak to a later point.
C21_DrawdownOfEquityCurve ==
    last.op = "stats" =>
        last.stats.maxDrawdown = LargestDrop(ClaimedCurve(file.arr))

\* two quotients are the same number
SameRatio(a, b) == a.num * b.den = b.num * a.den

\* C22 (as claimed): storing a record whose result is neither a win nor a
\* loss changes none of the win rate, the average R, the equity curve and
\* the win rate of the last 30 records.
C22_NonTerminalChangesNothing ==
    [][(/\ Len(file'.arr) = Len(file.arr) + 1
        /\ file'.arr[Len(file'.arr)].result \notin {"win", "lose"})
       => LET old == computeStatsDashboard(file.arr)
              new == computeStatsDashboard(file'.arr)
          IN  /\ SameRatio(new.winRate, old.winRate)
              /\ SameRatio(new.avgR, old.avgR)
              /\ new.equityCurve = old.equityCurve
              /\ SameRatio(new.last30WinRate, old.last30WinRate)]_vars

(***************************************************************************)
(* Properties of the conversation memory.                                  *)
(***************************************************************************)
\* C28: the history of a user never holds more than 20 entries, and it
\* holds the entries added last for that user, in the order they came; a
\* step changes the history of at most one user.
C28_HistoryBounded ==
    /\ [](\A u \in DOMAIN last.mem :
             LET h == last.mem[u].history
                 n == Len(pc[u])
             IN  /\ u # ""
                 /\ Len(h) <= 20
                 /\ Len(h) = IF n < 20 THEN n ELSE 20
                 /\ \A i \in 1..Len(h) : h[i] = pc[u][n - Len(h) + i])
    /\ [][\A u \in DOMAIN last.mem, v \in DOMAIN last.mem :
             (last'.mem[u] # last.mem[u] /\ v # u) => last'.mem[v] = last.mem[v]]_vars

\* C28 witness: the history of one user was cut, two entries were dropped,
\* while another user has a shorter history.
C28_Witness ==
    /\ DOMAIN last.mem = {"u1", "u2"}
    /\ Len(pc["u1"]) = 22
    /\ Len(last.mem["u1"].history) = 20
    /\ last.mem["u1"].history[1].text = 3
    /\ Len(last.mem["u2"].history) = 5

(***************************************************************************)
(* Properties of the rate limiter.                                         *)
(***************************************************************************)
\* C29: of the requests of a user within 10 seconds from the first request
\* of a window, at most 5 are admitted and the others are rejected; the
\* first request later than that is admitted and starts a window; a request
\* leaves the count of the other users as it is.
C29_FiveRequestsPerWindow ==
    /\ [](\A u \in RateIds : pc[u].admitted <= 5)
    /\ [][\A u \in RateIds :
            (last'.rateMap # last.rateMap /\ last'.id = u)
            => /\ IF ~pc[u].open \/ now - pc[u].start > 10000
                  THEN ~last'.limited
                  ELSE last'.limited <=> pc[u].admitted >= 5
               /\ \A v \in DOMAIN last.rateMap : v # u => last'.rateMap[v] = last.rateMap[v]]_vars

\* C29 witness: a user was rejected in a window, and the next request, made
\* more than 10 seconds after the start of that window, was admitted, while
\* the other user has a window of its own.
C29_Witness ==
    /\ last.id = "u1" /\ ~last.limited
    /\ pc["u1"].start = now /\ now > 10001
    /\ last.rateMap["u1"].count = 1
    /\ "u2" \in DOMAIN last.rateMap
    /\ last.rateMap["u2"].count > 5
    /\ last.rateMap["u2"].ts < now

(***************************************************************************)
(* Properties of the interaction log.                                      *)
(***************************************************************************)
\* C30: in the stored log, and in what loadTradesLog returns for the file,
\* total_trades is the number of entries, and last_3_results holds the
\* suggestions of the last three entries (of all when there are fewer), in
\* their order.
C30_CountersMatchEntries ==
    \A w \in WriteOutcomes :
        LET d == loadTradesLog(file, w).data
            n == Len(d.trades)
            k == IF n < 3 THEN n ELSE 3
        IN  /\ (file.kind = "log" /\ w = "written") => d = file.data
            /\ d.stats.total_trades = n
            /\ Len(d.stats.last_3_results) = k
            /\ \A i \in 1..k : d.stats.last_3_results[i] = d.trades[n - k + i].suggestion

\* C30 witness: the log holds four entries with different suggestions; the
\* write of one call before the last had failed.
C30_Witness ==
    /\ file.kind = "log"
    /\ Len(file.data.trades) = 4
    /\ file.data.trades[1].suggestion = "wait"
    /\ file.data.stats.last_3_results = <<"enter", "unknown", "wait">>
    /\ last.wrote = "written" /\ last.failed

====
